---- MODULE Spec2Model ----
(***************************************************************************)
(* A model of the container-access core of minecraft-mcp:                  *)
(*   - the keyed promise-chain mutex (skills/library/mutex.ts),            *)
(*   - the labelled-chest registry (storage/chestStore.ts),                *)
(*   - container detection and the open/close helpers (chestUtils),        *)
(*   - the chest skills that compose them (check_chest, deposit_items,     *)
(*     withdraw_items, label_chest) and the server's 30 s skill timeout.   *)
(*                                                                         *)
(* Eleven families of behaviours are specified over one set of variables:    *)
(*   Spec / FairSpec        callers of runExclusive with an abstract       *)
(*                          operation fn;                                  *)
(*   AccessSpec             one chest skill at a time against a registry   *)
(*                          that label_chest and markDestroyed change;     *)
(*   SessionSpec /          concurrent chest skills, their container       *)
(*   FairSessionSpec        windows and the server's timeout;              *)
(*   LoadSpec               skills that load the registry file at process  *)
(*                          start, and the deferred save;                  *)
(*   LabelSpec              concurrent label_chest invocations with every  *)
(*                          kind of params, at process start;              *)
(*   RegistrySpec           the exported registry functions called in any  *)
(*                          order for two worlds;                          *)
(*   SaveSpec /             registry mutations and save requests against   *)
(*   FairSaveSpec           the debounce timer of scheduleSave;            *)
(*   TransferSpec           depositType / withdrawType over a transfer     *)
(*                          primitive that may move part of what was asked;*)
(*   SlotSpec               the slot helpers over windows with and without *)
(*                          a declared inventory range;                    *)
(*   ScanSpec               detection, label_chest and the discovery       *)
(*                          skills over every arrangement of four cells;   *)
(*   CancelSpec /           the concurrent skills of SessionSpec with a    *)
(*   FairCancelSpec         cancellation signal per invocation.            *)
(***************************************************************************)
EXTENDS Integers, Sequences, FiniteSets, TLC

(***************************************************************************)
(* Bounds of the model.                                                    *)
(***************************************************************************)
\* number of concurrent runExclusive callers in Spec
NumTasks == 3
\* number of concurrent skill invocations in SessionSpec
NumSkills == 2
\* number of skill invocations in AccessSpec
NumPolicyTasks == 1
\* number of registry operations (label_chest, markDestroyed) in AccessSpec
MaxRegOps == 2
\* number of registry calls in RegistrySpec
MaxCalls == 3
\* number of save requests in SaveSpec
MaxSaveReqs == 3
\* largest small count of units requested, held or accepted in TransferSpec
MaxUnits == 3
\* number of label_chest calls in ScanSpec
MaxScanLabels == 1
\* number of detection and discovery calls between label_chest calls in ScanSpec
MaxScanCalls == 1
\* number of concurrent label_chest invocations in LabelSpec
NumLabelCalls == 2
\* largest number of container slots of a window in SlotSpec
MaxContainerSlots == 2
\* part_000:171  the slots of the player inventory appended to a container window
InventorySlots == 36
\* find_containers.ts:11,13  the default radius_x and radius_z
DefaultRadiusXZ == 16
\* find_containers.ts:12  the default radius_y
DefaultRadiusY == 8
\* openNearbyChest.ts:27  rx and rz of its scan
NearbyRadiusXZ == 12
\* openNearbyChest.ts:27  ry of its scan
NearbyRadiusY == 6
\* the debounce window of scheduleSave (chestStore.ts:61, 100 ms), in ticks
DebounceTicks == 2

Tasks == 1..NumTasks
SkillTasks == 1..NumSkills
PolicyTasks == 1..NumPolicyTasks

VARIABLES
    locks,         \* mutex.ts:3   the module-level Map lockKey -> Promise
    prev,          \* mutex.ts:7   per call: the promise it awaits
    nextResolved,  \* mutex.ts:9   calls whose `next` promise has been resolved
    lockKeyOf,     \* mutex.ts:6   per call: its lockKey ("" before the call)
    pc,            \* per call / skill invocation: where it is
    result,        \* what runExclusive delivered to its caller
    fnOutcome,     \* how the call's own fn settled (history)
    callSeq,       \* calls in the order runExclusive was entered (history)
    startSeq,      \* calls in the order fn was started (history)
    store,         \* chestStore.ts:41  worldKey -> sequence of ChestRecord
    nextId,        \* chestStore.ts:154 source of fresh record ids
    world,         \* the blocks of the world: position -> block name
    regOps,        \* registry operations performed so far (bound)
    loaded,        \* chestStore.ts:46  the module-level flag `loaded`
    savePending,   \* chestStore.ts:47  the pending save timers, each by its age in ticks
    writing,       \* chestStore.ts:56  the texts of the file writes in progress
    lastWrite,     \* the text of the write started last (history)
    burst,         \* the current burst of save requests: requests made, writes started (history)
    disk,          \* the persisted registry file (data/chests.json)
    buf,           \* per call: the text handed to fsp.writeFile
    fileReads,     \* number of fsp.readFile calls made (history)
    ioErrors,      \* the loads (by call) and the number of saves whose file I/O failed (history)
    lastCall,      \* the most recent registry call and what it returned (history)
    prevCall,      \* the registry call before it (history)
    posVec,        \* per skill: the resolved position (posVec), or NoPos
    req,           \* per skill: how the chest was addressed (history)
    outcome,       \* per skill: what the skill reported
    usedMutex,     \* per skill: runExclusive was called (history)
    openIssued,    \* per skill: bot.openContainer was called (history)
    gotWindow,     \* per skill: a window was returned to the skill
    closeCalls,    \* per skill: number of closeContainer invocations
    closeDone,     \* per skill: closeContainer has returned
    useThrew,      \* per skill: an operation during use threw
    timedOut,      \* per skill: the server's 30 s timer fired first
    transfer,      \* deposit_items.ts:23  one depositType / withdrawType call and its window
    scan,          \* the last detection or discovery call on the present registry and
                   \* what it returned (history)
    signal,        \* per skill: serviceParams.signal, with where the skill was when it
                   \* fired and whether pathfinder.stop() was called (history)
    params,        \* label_chest.ts:12  per label_chest invocation: its params
    window         \* part_000:168  a container window, the slot helper applied to it
                   \* last and what it returned (history)

mutexVars == <<locks, prev, nextResolved, lockKeyOf, result, fnOutcome, callSeq, startSeq>>
saveVars == <<writing, lastWrite>>
loadVars == <<loaded, savePending, burst, saveVars, disk, buf, fileReads, ioErrors>>
logVars == <<lastCall, prevCall>>
storeVars == <<store, nextId, world, regOps, loadVars, logVars>>
skillVars == <<posVec, req, outcome, usedMutex, openIssued, gotWindow, closeCalls,
               closeDone, useThrew, timedOut>>
toolVars == <<transfer, scan, signal, params, window>>
vars == <<pc, mutexVars, storeVars, skillVars, toolVars>>

(***************************************************************************)
(* mutex.ts: promises.                                                     *)
(* Three kinds of promise occur: Promise.resolve() (line 7), the `next`    *)
(* promise of a call (line 9) and the chained promise                      *)
(* prev.then(() => next) that is stored in the map (line 10).  Promises    *)
(* are compared by identity (line 22), which is equality of these records. *)
(***************************************************************************)
NoPromise == [kind |-> "none", of |-> 0]
ResolvedPromise == [kind |-> "resolved", of |-> 0]
NextPromise(t) == [kind |-> "next", of |-> t]
ThenPromise(t) == [kind |-> "then", of |-> t]

\* Whether promise p is fulfilled.  prev.then(() => next) is fulfilled once
\* prev is fulfilled and the promise its callback returns (next) is fulfilled.
\* No promise of the chain ever rejects: next is only ever resolved.
RECURSIVE Settled(_)
Settled(p) ==
    CASE p.kind = "resolved" -> TRUE
      [] p.kind = "next" -> p.of \in nextResolved
      [] p.kind = "then" -> (p.of \in nextResolved) /\ Settled(prev[p.of])
      [] OTHER -> FALSE

Usernames == {"", "bot", "al"}
KeyStrings == {"container"}

\* mutex.ts:6  `${bot.username || 'bot'}:${key}`
LockKey(username, key) == (IF username = "" THEN "bot" ELSE username) \o ":" \o key

LockKeys == {LockKey(u, k) : u \in Usernames, k \in KeyStrings}

\* mutex.ts:7  locks.get(lockKey) || Promise.resolve()
PrevOfAnyKey(lk) ==
    IF callSeq = <<>> THEN ResolvedPromise ELSE ThenPromise(callSeq[Len(callSeq)])
PrevOf(lk) == IF lk \in DOMAIN locks THEN locks[lk] ELSE ResolvedPromise

\* mutex.ts:13  `await prev` resumes once prev is fulfilled
PrevSettledNoWait(t) == TRUE
PrevSettled(t) == Settled(prev[t])

\* mutex.ts:22  locks.get(lockKey) === next
IsLastInChainAlways(t) == TRUE
IsLastInChain(t) ==
    /\ lockKeyOf[t] \in DOMAIN locks
    /\ locks[lockKeyOf[t]] = NextPromise(t)

\* mutex.ts:5-10  the synchronous part of runExclusive, up to `await prev`
runExclusiveCall(t, username, key) ==
    LET lk == LockKey(username, key) IN
    /\ lockKeyOf' = [lockKeyOf EXCEPT ![t] = lk]
    /\ prev' = [prev EXCEPT ![t] = PrevOf(lk)]
    /\ locks' = [k \in DOMAIN locks \cup {lk} |->
                    IF k = lk THEN ThenPromise(t) ELSE locks[k]]
    /\ callSeq' = Append(callSeq, t)

\* mutex.ts:13-14  `await prev` resumes and fn() is called
runExclusiveResume(t) ==
    /\ PrevSettled(t)
    /\ startSeq' = Append(startSeq, t)

\* mutex.ts:15,18  resolveNext is called when fn returned and when it threw
ReleasesOnReturnOnly(how) == how = "return"
ReleasesOn(how) == how \in {"return", "throw"}

\* mutex.ts:16,19  the caller gets fn's value, or fn's error rethrown
Delivered(how) == IF how = "throw" THEN "rejected" ELSE "returned"

\* mutex.ts:15-25  fn has settled: resolveNext on both paths, then the
\* finally block, then the value or the error goes to the caller
runExclusiveSettle(t, how) ==
    /\ nextResolved' = IF ReleasesOn(how) THEN nextResolved \cup {t} ELSE nextResolved
    /\ locks' = IF IsLastInChain(t)
                THEN [k \in DOMAIN locks \ {lockKeyOf[t]} |-> locks[k]]
                ELSE locks
    /\ result' = [result EXCEPT ![t] = Delivered(how)]
    /\ fnOutcome' = [fnOutcome EXCEPT ![t] = how]

(***************************************************************************)
(* Spec: callers of runExclusive with an abstract operation.               *)
(***************************************************************************)
NoPos == <<>>

\* the request history of a skill that has not been invoked
NoReq == [mode |-> "none", forbLabel |-> FALSE, forbCoord |-> FALSE,
          noContainer |-> FALSE]

\* no depositType / withdrawType call has been made
NoTransfer ==
    [phase |-> "idle", kind |-> "none", count |-> 0, source |-> 0, room |-> 0,
     held |-> 0, space |-> 0, i |-> 0, moved |-> 0, actual |-> 0, returned |-> 0, failed |-> 0,
     bulkTries |-> 0, unitTries |-> 0, unitFails |-> 0]

\* no detection or discovery call has been made on the present registry
NoScan ==
    [op |-> "none", calls |-> 0, pos |-> <<>>, det |-> <<>>, found |-> <<>>,
     listed |-> <<>>, target |-> <<>>, outcome |-> "none"]

\* a signal that has not fired
NoSignal == [aborted |-> FALSE, at |-> "", stopAsked |-> FALSE]

\* a value of params: its typeof, and the value when it is a number (in
\* half blocks) or a string
Value(type, halves, str) == [type |-> type, halves |-> halves, str |-> str]
Undefined == Value("undefined", 0, <<>>)
Num(halves) == Value("number", halves, <<>>)
Str(str) == Value("string", 0, str)

\* no label_chest invocation
NoParams == [x |-> Undefined, y |-> Undefined, z |-> Undefined, label |-> Undefined]

\* a window property that the window declares as a number, or does not
Declared(n) == [declared |-> TRUE, n |-> n]
Undeclared == [declared |-> FALSE, n |-> 0]

\* an empty slot; an item stack
Null == [name |-> "", count |-> 0]
Item(name, count) == [name |-> name, count |-> count]

\* a window: its slots (slot i of the code is slots[i + 1]) and the two
\* properties getContainerSlotInfo reads; the helper applied and its result
Window(slots, inventoryStart, inventoryEnd) ==
    [slots |-> slots, inventoryStart |-> inventoryStart, inventoryEnd |-> inventoryEnd,
     op |-> "none", info |-> <<>>, summary |-> <<>>, free |-> 0]

NoWindow == Window(<<>>, Undeclared, Undeclared)

InitTools ==
    /\ transfer = NoTransfer
    /\ scan = NoScan
    /\ signal = [t \in Tasks |-> NoSignal]
    /\ params = [t \in Tasks |-> NoParams]
    /\ window = NoWindow

InitMutex ==
    /\ locks = <<>>
    /\ prev = [t \in Tasks |-> NoPromise]
    /\ nextResolved = {}
    /\ lockKeyOf = [t \in Tasks |-> ""]
    /\ result = [t \in Tasks |-> "none"]
    /\ fnOutcome = [t \in Tasks |-> "none"]
    /\ callSeq = <<>>
    /\ startSeq = <<>>

InitSkills ==
    /\ posVec = [t \in Tasks |-> NoPos]
    /\ req = [t \in Tasks |-> NoReq]
    /\ outcome = [t \in Tasks |-> "none"]
    /\ usedMutex = [t \in Tasks |-> FALSE]
    /\ openIssued = [t \in Tasks |-> FALSE]
    /\ gotWindow = [t \in Tasks |-> FALSE]
    /\ closeCalls = [t \in Tasks |-> 0]
    /\ closeDone = [t \in Tasks |-> FALSE]
    /\ useThrew = [t \in Tasks |-> FALSE]
    /\ timedOut = [t \in Tasks |-> FALSE]

\* chestStore.ts:41-47  the module state before anything was loaded
NoFile == [kind |-> "absent", worlds |-> <<>>]

\* a registry call as the log keeps it: the operation, its world key, its
\* argument (a record; for a call by id or label, a record with that id or
\* label), the chests of the world before the call, and the id of the record
\* the call returned or acted on (0 when none)
RegistryCall(op, worldKey, arg, before, id) ==
    [op |-> op, world |-> worldKey, arg |-> arg, before |-> before, id |-> id]

NoCall == RegistryCall("none", "", <<>>, <<>>, 0)

InitLoad(isLoaded, file) ==
    /\ loaded = isLoaded
    /\ savePending = <<>>
    /\ writing = <<>>
    /\ lastWrite = NoFile
    /\ burst = [reqs |-> 0, writes |-> 0]
    /\ disk = file
    /\ buf = [t \in Tasks |-> NoFile]
    /\ fileReads = 0
    /\ ioErrors = [loads |-> {}, saves |-> 0]

InitLog ==
    /\ lastCall = NoCall
    /\ prevCall = NoCall

InitStoreEmpty ==
    /\ store = <<>>
    /\ nextId = 1
    /\ world = <<>>
    /\ regOps = 0
    /\ InitLoad(FALSE, NoFile)
    /\ InitLog

Init ==
    /\ pc = [t \in Tasks |-> "idle"]
    /\ InitMutex
    /\ InitSkills
    /\ InitTools
    /\ InitStoreEmpty

\* a caller enters runExclusive(bot, key, fn)
Call(t) ==
    /\ pc[t] = "idle"
    /\ \E u \in Usernames, k \in KeyStrings : runExclusiveCall(t, u, k)
    /\ pc' = [pc EXCEPT ![t] = "waiting"]
    /\ UNCHANGED <<nextResolved, result, fnOutcome, startSeq, storeVars, toolVars, skillVars>>

\* its `await prev` resumes and fn starts
Start(t) ==
    /\ pc[t] = "waiting"
    /\ runExclusiveResume(t)
    /\ pc' = [pc EXCEPT ![t] = "running"]
    /\ UNCHANGED <<locks, prev, nextResolved, lockKeyOf, result, fnOutcome, callSeq,
                   storeVars, toolVars, skillVars>>

\* fn returns or throws
FnSettle(t) ==
    /\ pc[t] = "running"
    /\ \E how \in {"return", "throw"} : runExclusiveSettle(t, how)
    /\ pc' = [pc EXCEPT ![t] = "done"]
    /\ UNCHANGED <<prev, lockKeyOf, callSeq, startSeq, storeVars, toolVars, skillVars>>

\* fn never settles
FnHang(t) ==
    /\ pc[t] = "running"
    /\ pc' = [pc EXCEPT ![t] = "hung"]
    /\ fnOutcome' = [fnOutcome EXCEPT ![t] = "hang"]
    /\ UNCHANGED <<locks, prev, nextResolved, lockKeyOf, result, callSeq, startSeq,
                   storeVars, toolVars, skillVars>>

TaskStep(t) == Call(t) \/ Start(t) \/ FnSettle(t) \/ FnHang(t)

Next == \E t \in Tasks : TaskStep(t)

Spec == Init /\ [][Next]_vars

\* The event loop runs every continuation that is ready; an operation that
\* hangs is the explicit FnHang choice.
FairSpec == Spec /\ \A t \in Tasks : WF_vars(Start(t) \/ FnSettle(t) \/ FnHang(t))

(***************************************************************************)
(* Strings that the code normalises (labels) are sequences of one-letter   *)
(* strings, so that trim() and toLowerCase() are computed.                 *)
(***************************************************************************)
\* String.prototype.toLowerCase on the letters the model uses
LowerChar(c) ==
    CASE c = "V" -> "v"
      [] c = "B" -> "b"
      [] OTHER -> c

toLowerCaseNot(s) == s
toLowerCase(s) == [i \in DOMAIN s |-> LowerChar(s[i])]

\* String.prototype.trim: strips the blanks at both ends
RECURSIVE trim(_)
trim(s) ==
    IF s = <<>> THEN s
    ELSE IF Head(s) = " " THEN trim(Tail(s))
    ELSE IF s[Len(s)] = " " THEN trim(SubSeq(s, 1, Len(s) - 1))
    ELSE s

\* chestStore.ts:92-94
normalizeLabel(label) == trim(label)

\* chestStore.ts:96-98
posEquals(a, b) == a[1] = b[1] /\ a[2] = b[2] /\ a[3] = b[3]

\* chestStore.ts:100-105  `${host}:${port}:${dimension}`
getWorldKeyNoDimension(host, port, dimension) == host \o ":" \o port
getWorldKey(host, port, dimension) == host \o ":" \o port \o ":" \o dimension

\* the world key of the one bot of AccessSpec: default host and port
\* (chestStore.ts:101-103), overworld
BotWorldKey == getWorldKey("localhost", "25565", "overworld")

\* the value of a lookup that found nothing (undefined)
NoRecord ==
    [id |-> 0, label |-> <<>>, notes |-> "", hidden |-> FALSE, forbidden |-> FALSE,
     type |-> "none", positions |-> <<>>, primary |-> NoPos, dimension |-> "",
     destroyed |-> FALSE]

\* Array.prototype.find / findIndex: the index of the first element that
\* satisfies P, 0 when there is none
FindFirst(seq, P(_)) ==
    LET hits == {i \in DOMAIN seq : P(seq[i])}
    IN IF hits = {} THEN 0 ELSE CHOOSE i \in hits : \A j \in hits : i <= j

ElementAt(seq, i) == IF i = 0 THEN NoRecord ELSE seq[i]

\* chestStore.ts:107-112  ensureWorld, as the store it leaves behind
ensureWorld(worldKey) ==
    IF worldKey \in DOMAIN store THEN store
    ELSE [k \in DOMAIN store \cup {worldKey} |-> IF k = worldKey THEN <<>> ELSE store[k]]

\* the chests of a world as ensureWorld returns them
chestsOf(worldKey) == ensureWorld(worldKey)[worldKey]

\* chestStore.ts:114-117
listChestsWithForbidden(worldKey, includeHidden) ==
    SelectSeq(chestsOf(worldKey), LAMBDA c : ~c.destroyed /\ (includeHidden \/ ~c.hidden))
listChests(worldKey, includeHidden) ==
    SelectSeq(chestsOf(worldKey),
              LAMBDA c : ~c.destroyed /\ (includeHidden \/ ~c.hidden) /\ ~c.forbidden)

\* chestStore.ts:119-123
getChestByLabel(worldKey, label) ==
    LET norm == toLowerCase(normalizeLabel(label))
        chests == chestsOf(worldKey)
    IN ElementAt(chests,
                 FindFirst(chests, LAMBDA c : ~c.destroyed /\ ~c.forbidden
                                                /\ toLowerCase(c.label) = norm))

\* chestStore.ts:125-128
getChestByPosition(worldKey, pos) ==
    LET chests == chestsOf(worldKey)
    IN ElementAt(chests,
                 FindFirst(chests, LAMBDA c : ~c.destroyed
                                                /\ \E i \in DOMAIN c.positions :
                                                       posEquals(c.positions[i], pos)))

\* chestStore.ts:133-135  the record upsertChest updates: the first whose
\* label matches, else the first whose primary matches; 0 when it appends
upsertExistingNone(worldKey, record) == 0
upsertExisting(worldKey, record) ==
    LET chests == chestsOf(worldKey)
        norm == toLowerCase(normalizeLabel(record.label))
        byLabel == FindFirst(chests, LAMBDA c : toLowerCase(c.label) = norm)
    IN IF byLabel # 0 THEN byLabel
       ELSE FindFirst(chests, LAMBDA c : posEquals(c.primary, record.primary))

\* chestStore.ts:130-164  upsertChest, as the chests of the world afterwards.
\* A record passed without id gets a fresh one (line 154).
upsertChest(worldKey, record) ==
    LET chests == chestsOf(worldKey)
        existing == upsertExisting(worldKey, record)
    IN IF existing # 0
       THEN [chests EXCEPT ![existing] =
                [@ EXCEPT !.label = normalizeLabel(record.label),
                          !.notes = record.notes,
                          !.hidden = record.hidden,
                          !.forbidden = record.forbidden,
                          !.type = record.type,
                          !.positions = record.positions,
                          !.primary = record.primary,
                          !.dimension = record.dimension,
                          !.destroyed = FALSE]]
       ELSE Append(chests, [record EXCEPT !.id = IF record.id = 0 THEN nextId ELSE record.id,
                                          !.destroyed = FALSE])

\* chestStore.ts:177-185  markDestroyed, as the chests of the world afterwards
markDestroyedNot(worldKey, id) == chestsOf(worldKey)
markDestroyed(worldKey, id) ==
    LET chests == chestsOf(worldKey)
        i == FindFirst(chests, LAMBDA c : c.id = id)
    IN IF i # 0 THEN [chests EXCEPT ![i].destroyed = TRUE] ELSE chests

\* chestStore.ts:166-175  removeChest, as the chests of the world afterwards.
\* idOrLabel is a string of the code; here it is tagged as the id or the
\* label it spells (ids are numbers of the model, labels are sequences).
ById(id) == [kind |-> "id", id |-> id, label |-> <<>>]

ByLabel(label) == [kind |-> "label", id |-> 0, label |-> label]

removeIndex(worldKey, idOrLabel) ==
    FindFirst(chestsOf(worldKey),
              LAMBDA c : IF idOrLabel.kind = "id" THEN c.id = idOrLabel.id
                         ELSE toLowerCase(c.label) = toLowerCase(idOrLabel.label))

removeChest(worldKey, idOrLabel) ==
    LET chests == chestsOf(worldKey)
        idx == removeIndex(worldKey, idOrLabel)
    IN IF idx # 0
       THEN SubSeq(chests, 1, idx - 1) \o SubSeq(chests, idx + 1, Len(chests))
       ELSE chests

\* the store with the chests of one world replaced
WithChests(worldKey, chests) == [ensureWorld(worldKey) EXCEPT ![worldKey] = chests]

\* The registry calls as steps of the module state: the store afterwards,
\* the save that is scheduled (scheduleSave, chestStore.ts:49-62) and the log.
\* chestStore.ts:50-51  clearTimeout(savePending); savePending = setTimeout(..)
scheduleSaveKeepingTimers(timers) == Append(timers, 0)
scheduleSave(timers) == <<0>>

\* the previous save request was made less than a debounce window ago
InWindow == savePending # <<>> /\ savePending[Len(savePending)] < DebounceTicks

\* a call of scheduleSave; a request outside the window begins a new burst
scheduleSaveCall ==
    /\ savePending' = scheduleSave(savePending)
    /\ burst' = IF InWindow THEN [burst EXCEPT !.reqs = @ + 1]
                ELSE [reqs |-> 1, writes |-> 0]

noSaveCall == UNCHANGED <<savePending, burst>>

Logged(call) ==
    /\ lastCall' = call
    /\ prevCall' = [lastCall EXCEPT !.before = <<>>]

\* chestStore.ts:130-164
upsertChestCall(worldKey, record) ==
    LET existing == upsertExisting(worldKey, record)
        chests == upsertChest(worldKey, record)
        saved == IF existing # 0 THEN chests[existing] ELSE chests[Len(chests)]
    IN /\ store' = WithChests(worldKey, chests)
       /\ nextId' = IF existing = 0 /\ record.id = 0 THEN nextId + 1 ELSE nextId
       /\ scheduleSaveCall
       /\ Logged(RegistryCall("upsertChest", worldKey, record, chestsOf(worldKey),
                              saved.id))

\* chestStore.ts:177-185
markDestroyedCall(worldKey, id) ==
    /\ store' = WithChests(worldKey, markDestroyed(worldKey, id))
    /\ IF \E i \in DOMAIN chestsOf(worldKey) : chestsOf(worldKey)[i].id = id
       THEN scheduleSaveCall
       ELSE noSaveCall
    /\ Logged(RegistryCall("markDestroyed", worldKey, [NoRecord EXCEPT !.id = id],
                           chestsOf(worldKey), id))
    /\ UNCHANGED nextId

\* chestStore.ts:166-175
removeChestCall(worldKey, idOrLabel) ==
    LET idx == removeIndex(worldKey, idOrLabel)
    IN /\ store' = WithChests(worldKey, removeChest(worldKey, idOrLabel))
       /\ IF idx # 0 THEN scheduleSaveCall ELSE noSaveCall
       /\ Logged(RegistryCall("removeChest", worldKey,
                              [NoRecord EXCEPT !.id = idOrLabel.id,
                                               !.label = idOrLabel.label],
                              chestsOf(worldKey),
                              IF idx # 0 THEN chestsOf(worldKey)[idx].id ELSE 0))
       /\ UNCHANGED nextId

(***************************************************************************)
(* chestUtils: detection.  A position is <<x, y, z>>.                      *)
(***************************************************************************)
\* the block names of the model; bot.blockAt gives null where nothing is loaded
NoBlock == "null"
ShulkerNames == {"shulker_box", "red_shulker_box"}

\* bot.blockAt(pos)?.name
blockAt(pos) == IF pos \in DOMAIN world THEN world[pos] ELSE NoBlock

\* Vec3.offset
offset(pos, dx, dy, dz) == <<pos[1] + dx, pos[2] + dy, pos[3] + dz>>

\* part_000:26-36  on the block names of the model, name.endsWith('_shulker_box')
\* holds of red_shulker_box only
isContainerBlockName(name) ==
    name \in {"chest", "trapped_chest", "barrel", "ender_chest"} \cup ShulkerNames

\* part_000:66  the comparator (a.x - b.x) || (a.y - b.y) || (a.z - b.z)
comparePosNoZ(a, b) == IF a[1] # b[1] THEN a[1] - b[1] ELSE a[2] - b[2]
comparePos(a, b) ==
    IF a[1] # b[1] THEN a[1] - b[1]
    ELSE IF a[2] # b[2] THEN a[2] - b[2]
    ELSE a[3] - b[3]

\* the value of a detection that threw
NotDetected == [ok |-> FALSE, type |-> "none", positions |-> <<>>, primary |-> NoPos]

DetectedPrimaryOnly(type, positions) ==
    [ok |-> TRUE, type |-> type, positions |-> <<positions[1]>>, primary |-> positions[1]]
Detected(type, positions) ==
    [ok |-> TRUE, type |-> type, positions |-> positions, primary |-> positions[1]]

\* part_000:50-96
detectContainerAtAnyBlock(pos) ==
    IF blockAt(pos) = NoBlock THEN NotDetected ELSE Detected("container", <<pos>>)
detectContainerAt(pos) ==
    LET name == blockAt(pos)
        adjPositions == <<offset(pos, 1, 0, 0), offset(pos, -1, 0, 0),
                          offset(pos, 0, 0, 1), offset(pos, 0, 0, -1)>>
        m == FindFirst(adjPositions, LAMBDA p : blockAt(p) = name)
    IN IF name = NoBlock THEN NotDetected
       ELSE IF name \in {"chest", "trapped_chest"}
       THEN IF m # 0
            THEN Detected(IF name = "chest" THEN "double_chest" ELSE "trapped_chest",
                          IF comparePos(pos, adjPositions[m]) > 0
                          THEN <<adjPositions[m], pos>> ELSE <<pos, adjPositions[m]>>)
            ELSE Detected(IF name = "chest" THEN "single_chest" ELSE "trapped_chest", <<pos>>)
       ELSE IF name = "barrel" THEN Detected("barrel", <<pos>>)
       ELSE IF name = "ender_chest" THEN Detected("ender_chest", <<pos>>)
       ELSE IF name \in ShulkerNames THEN Detected("shulker_box", <<pos>>)
       ELSE IF isContainerBlockName(name) THEN Detected("container", <<pos>>)
       ELSE NotDetected

(***************************************************************************)
(* The chest skills.                                                       *)
(***************************************************************************)
\* how a request names the chest: nothing, a label or coordinates
ChestArg(kind, label, pos) == [kind |-> kind, label |-> label, pos |-> pos]

Res(kind, pos) == [kind |-> kind, pos |-> pos]

\* deposit_items.ts:83-88, part_002:85-90, find_containers.ts:106-111
\* the skill's own forbidden check on the resolved position
skillForbiddenCheck(pos) ==
    LET recForbCheck == getChestByPosition(BotWorldKey, pos)
    IN recForbCheck.id # 0 /\ recForbCheck.forbidden

\* find_containers.ts:60-61  check_chest: hasLabel, hasCoords
hasLabel(chest) == chest.kind = "label" /\ trim(chest.label) # <<>>
hasCoords(chest) == chest.kind = "coords"

\* The part of a skill that runs before runExclusive is called:
\*   deposit_items.ts:50-88, part_002:52-90 (withdraw_items),
\*   find_containers.ts:63-111 (check_chest).
\* kind is what it ends with: "validation", "notfound", "failed" (an error
\* caught by the skill), "denied", or "queued" when runExclusive is called.
resolveChest(skill, chest) ==
    LET byLabel == IF skill = "check_chest" THEN hasLabel(chest) ELSE chest.kind = "label"
        rec == getChestByLabel(BotWorldKey, chest.label)
        pos == IF byLabel THEN rec.primary ELSE chest.pos
    IN IF skill = "check_chest" /\ ~hasLabel(chest) /\ ~hasCoords(chest)
            THEN Res("validation", NoPos)
       ELSE IF /\ skill # "check_chest"
               /\ (chest.kind = "missing" \/ (chest.kind = "label" /\ chest.label = <<>>))
            THEN Res("validation", NoPos)
       ELSE IF byLabel /\ rec.id = 0 THEN Res("notfound", NoPos)
       ELSE IF /\ skill = "check_chest"
               /\ ~byLabel
               /\ getChestByPosition(BotWorldKey, pos).id = 0
               /\ ~detectContainerAt(pos).ok
            THEN Res("failed", pos)
       ELSE IF skillForbiddenCheck(pos) THEN Res("denied", pos)
       ELSE Res("queued", pos)

\* part_000:151-158  the position whose block openContainerAt opens
openTarget(pos) ==
    LET det == detectContainerAt(pos)
    IN IF det.type = "double_chest" THEN det.primary ELSE pos

\* part_000:143-161  openContainerAt up to its first await: TRUE when it goes
\* on to navigate, FALSE when it throws
openContainerAtChecks(pos) ==
    LET rec == getChestByPosition(BotWorldKey, pos)
    IN /\ ~(rec.id # 0 /\ rec.forbidden)
       /\ detectContainerAt(pos).ok
       /\ blockAt(openTarget(pos)) # NoBlock

\* deposit_items.ts:97-147  try { use } finally { closeContainer }: what
\* follows the use of the window
AfterUseNoFinally(how) == IF how = "throw" THEN "rethrow" ELSE "close"
AfterUse(how) == "close"

\* part_000:207-209  try { await bot.closeWindow(window) } catch {}
GenericCloseRaises(how) == IF how = "throw" THEN "raised" ELSE "returned"
GenericClose(how) == "returned"

(***************************************************************************)
(* AccessSpec: skills, the registry and the world.                         *)
(***************************************************************************)
BotName == "bot"
SkillNames == {"check_chest", "deposit_items", "withdraw_items"}

\* a row of blocks along x at y = 64, z = 0
Row(names) == [p \in {<<x, 64, 0>> : x \in 0..(Len(names) - 1)} |-> names[p[1] + 1]]

Layouts == {Row(<<"chest", "chest", "chest", "stone">>)}

LabelInputs == {<<"V">>, <<"b">>}
QueryLabels == {<<"v">>, <<"b">>, <<" ">>}

ChestArgs ==
    {ChestArg("missing", <<>>, NoPos)}
    \cup {ChestArg("label", l, NoPos) : l \in QueryLabels}
    \cup {ChestArg("coords", <<>>, p) : p \in DOMAIN world}

\* History of a request, taken when the skill resolved it: how the chest was
\* addressed, whether the label named a forbidden record, whether the
\* coordinates were a member of a live forbidden record, whether they named
\* no recognizable container.

Addressed(chest) ==
    LET chests == chestsOf(BotWorldKey)
        live == {i \in DOMAIN chests : ~chests[i].destroyed /\ chests[i].forbidden}
    IN [mode |-> chest.kind,
        forbLabel |-> /\ chest.kind = "label"
                      /\ \E i \in live :
                            toLowerCase(chests[i].label) = toLowerCase(trim(chest.label)),
        forbCoord |-> /\ chest.kind = "coords"
                      /\ \E i \in live : \E j \in DOMAIN chests[i].positions :
                            chests[i].positions[j] = chest.pos,
        noContainer |-> /\ chest.kind = "coords"
                        /\ ~isContainerBlockName(blockAt(chest.pos))]

InitAccess ==
    /\ pc = [t \in Tasks |-> "idle"]
    /\ InitMutex
    /\ InitSkills
    /\ InitTools
    /\ store = <<>>
    /\ nextId = 1
    /\ world \in Layouts
    /\ regOps = 0
    /\ InitLoad(TRUE, NoFile)
    /\ InitLog

\* A skill is invoked and runs to its first suspension that matters: either
\* it ends before the mutex, or it has called runExclusive and awaits prev.
Invoke(t) ==
    /\ pc[t] = "idle"
    /\ \E skill \in SkillNames, chest \in ChestArgs :
          LET r == resolveChest(skill, chest) IN
          /\ req' = [req EXCEPT ![t] = Addressed(chest)]
          /\ store' = IF r.kind = "validation" THEN store ELSE ensureWorld(BotWorldKey)
          /\ IF r.kind = "queued"
             THEN /\ runExclusiveCall(t, BotName, "container")
                  /\ pc' = [pc EXCEPT ![t] = "waiting"]
                  /\ posVec' = [posVec EXCEPT ![t] = r.pos]
                  /\ usedMutex' = [usedMutex EXCEPT ![t] = TRUE]
                  /\ UNCHANGED outcome
             ELSE /\ pc' = [pc EXCEPT ![t] = "done"]
                  /\ outcome' = [outcome EXCEPT ![t] = r.kind]
                  /\ UNCHANGED <<locks, prev, lockKeyOf, callSeq, posVec, usedMutex>>
    /\ UNCHANGED <<nextResolved, result, fnOutcome, startSeq, nextId, world, toolVars, regOps,
                   loadVars, logVars,
                   openIssued, gotWindow, closeCalls, closeDone, useThrew, timedOut>>

\* fn threw inside runExclusive: the link is released (mutex.ts:17-19), the
\* error reaches the skill's catch, which reports the failure
FnThrows(t) ==
    /\ runExclusiveSettle(t, "throw")
    /\ pc' = [pc EXCEPT ![t] = "done"]
    /\ outcome' = [outcome EXCEPT ![t] = "failed"]

\* fn never settles
FnHangs(t) ==
    /\ pc' = [pc EXCEPT ![t] = "hungOpen"]
    /\ fnOutcome' = [fnOutcome EXCEPT ![t] = "hang"]
    /\ UNCHANGED <<locks, nextResolved, result, outcome>>

\* `await prev` resumes; openContainerAt runs up to navigateNear's await
OpenStart(t) ==
    /\ pc[t] = "waiting"
    /\ runExclusiveResume(t)
    /\ IF openContainerAtChecks(posVec[t])
       THEN /\ pc' = [pc EXCEPT ![t] = "nav"]
            /\ UNCHANGED <<locks, nextResolved, result, fnOutcome, outcome>>
       ELSE FnThrows(t)
    /\ UNCHANGED <<prev, lockKeyOf, callSeq, storeVars, toolVars, posVec, req, usedMutex, openIssued,
                   gotWindow, closeCalls, closeDone, useThrew, timedOut>>

\* part_000:109-125  the abort listener is registered while navigateNear
\* awaits pathfinder.goto: from addEventListener to the finally block
onAbortNotListening(where) == FALSE
onAbortListening(where) == where = "nav"

\* part_000:115-122  how pathfinder.goto can settle.  The pathfinder is not
\* code of this repository: a goto whose path was stopped rejects; any other
\* resolves, rejects or never settles.  navigateNear rethrows a rejection.
gotoOutcomes(stopAsked) == IF stopAsked THEN {"throw"} ELSE {"ok", "throw", "hang"}

\* part_000:162  navigateNear settles
NavSettle(t) ==
    /\ pc[t] = "nav"
    /\ \E how \in gotoOutcomes(signal[t].stopAsked) :
          CASE how = "ok" -> /\ pc' = [pc EXCEPT ![t] = "look"]
                             /\ UNCHANGED <<locks, nextResolved, result, fnOutcome, outcome>>
            [] how = "throw" -> FnThrows(t)
            [] how = "hang" -> FnHangs(t)
    /\ UNCHANGED <<prev, lockKeyOf, callSeq, startSeq, storeVars, toolVars, posVec, req, usedMutex,
                   openIssued, gotWindow, closeCalls, closeDone, useThrew, timedOut>>

\* part_000:163-164  bot.lookAt settles; on success bot.openContainer is called
LookSettle(t) ==
    /\ pc[t] = "look"
    /\ \E how \in {"ok", "throw", "hang"} :
          CASE how = "ok" -> /\ pc' = [pc EXCEPT ![t] = "opening"]
                             /\ openIssued' = [openIssued EXCEPT ![t] = TRUE]
                             /\ UNCHANGED <<locks, nextResolved, result, fnOutcome, outcome>>
            [] how = "throw" -> FnThrows(t) /\ UNCHANGED openIssued
            [] how = "hang" -> FnHangs(t) /\ UNCHANGED openIssued
    /\ UNCHANGED <<prev, lockKeyOf, callSeq, startSeq, storeVars, toolVars, posVec, req, usedMutex,
                   gotWindow, closeCalls, closeDone, useThrew, timedOut>>

\* part_000:164-165  bot.openContainer settles; on success fn returns the
\* window, runExclusive releases the link and hands the window to the skill
OpenSettle(t) ==
    /\ pc[t] = "opening"
    /\ \E how \in {"ok", "throw", "hang"} :
          CASE how = "ok" -> /\ runExclusiveSettle(t, "return")
                             /\ pc' = [pc EXCEPT ![t] = "use"]
                             /\ gotWindow' = [gotWindow EXCEPT ![t] = TRUE]
                             /\ UNCHANGED outcome
            [] how = "throw" -> FnThrows(t) /\ UNCHANGED gotWindow
            [] how = "hang" -> FnHangs(t) /\ UNCHANGED gotWindow
    /\ UNCHANGED <<prev, lockKeyOf, callSeq, startSeq, storeVars, toolVars, posVec, req, usedMutex,
                   openIssued, closeCalls, closeDone, useThrew, timedOut>>

\* the skill reports and returns (deposit_items.ts:149-153)
Finish(t, failed) ==
    /\ pc' = [pc EXCEPT ![t] = "done"]
    /\ outcome' = [outcome EXCEPT ![t] = IF failed THEN "failed" ELSE "ok"]

\* deposit_items.ts:97-147  the use of the window settles (it completes, or
\* an operation in it throws, or a transfer never settles); then the finally
\* block calls closeContainer, which calls window.close() when the window
\* has one and bot.closeWindow otherwise (part_000:200-208)
UseSettle(t) ==
    /\ pc[t] = "use"
    /\ \E how \in {"ok", "throw", "hang"} :
          IF how = "hang"
          THEN /\ pc' = [pc EXCEPT ![t] = "hungUse"]
               /\ UNCHANGED <<useThrew, closeCalls, outcome>>
          ELSE /\ useThrew' = [useThrew EXCEPT ![t] = (how = "throw")]
               /\ IF AfterUse(how) = "close"
                  THEN /\ closeCalls' = [closeCalls EXCEPT ![t] = @ + 1]
                       /\ \E windowHasClose \in BOOLEAN :
                             pc' = [pc EXCEPT ![t] = IF windowHasClose THEN "closeStructured"
                                                     ELSE "closeGeneric"]
                       /\ UNCHANGED outcome
                  ELSE Finish(t, TRUE) /\ UNCHANGED closeCalls
    /\ UNCHANGED <<mutexVars, storeVars, toolVars, posVec, req, usedMutex, openIssued, gotWindow,
                   closeDone, timedOut>>

\* part_000:201-206  window.close() settles: closeContainer returns, or falls
\* through to the generic close
CloseStructured(t) ==
    /\ pc[t] = "closeStructured"
    /\ \E how \in {"ok", "throw"} :
          IF how = "ok"
          THEN /\ closeDone' = [closeDone EXCEPT ![t] = TRUE]
               /\ Finish(t, useThrew[t])
          ELSE /\ pc' = [pc EXCEPT ![t] = "closeGeneric"]
               /\ UNCHANGED <<closeDone, outcome>>
    /\ UNCHANGED <<mutexVars, storeVars, toolVars, posVec, req, usedMutex, openIssued, gotWindow,
                   closeCalls, useThrew, timedOut>>

\* part_000:207-209  bot.closeWindow settles; its error is swallowed
CloseGeneric(t) ==
    /\ pc[t] = "closeGeneric"
    /\ \E how \in {"ok", "throw"} :
          IF GenericClose(how) = "returned"
          THEN /\ closeDone' = [closeDone EXCEPT ![t] = TRUE]
               /\ Finish(t, useThrew[t])
          ELSE /\ Finish(t, TRUE)
               /\ UNCHANGED closeDone
    /\ UNCHANGED <<mutexVars, storeVars, toolVars, posVec, req, usedMutex, openIssued, gotWindow,
                   closeCalls, useThrew, timedOut>>

\* mcp-server.ts:335-341  the 30 s timer wins the race: the caller is told
\* the skill failed; the skill itself is not stopped.  A timer callback runs
\* only when no continuation is ready, so not between a settled prev and the
\* resumption of `await prev`.
Timeout(t) ==
    /\ pc[t] \notin {"idle", "done"}
    /\ pc[t] = "waiting" => ~PrevSettled(t)
    /\ ~timedOut[t]
    /\ timedOut' = [timedOut EXCEPT ![t] = TRUE]
    /\ UNCHANGED <<pc, mutexVars, storeVars, toolVars, posVec, req, outcome, usedMutex, openIssued,
                   gotWindow, closeCalls, closeDone, useThrew>>

\* label_chest.ts:7-53
LabelChest ==
    /\ regOps < MaxRegOps
    /\ regOps' = regOps + 1
    /\ \E pos \in DOMAIN world, label \in LabelInputs, forbidden \in BOOLEAN :
          LET det == detectContainerAt(pos)
              record == [id |-> 0, label |-> trim(label), notes |-> "",
                         hidden |-> FALSE, forbidden |-> forbidden, type |-> det.type,
                         positions |-> det.positions, primary |-> det.primary,
                         dimension |-> "overworld", destroyed |-> FALSE]
          IN IF trim(label) = <<>> \/ ~det.ok
             THEN UNCHANGED <<store, nextId, savePending, burst, logVars>>
             ELSE upsertChestCall(BotWorldKey, record)
    /\ UNCHANGED <<pc, mutexVars, world, toolVars, loaded, saveVars, disk, buf, fileReads, ioErrors,
                   skillVars>>

\* chestStore.ts:177-185
MarkDestroyed ==
    /\ regOps < MaxRegOps
    /\ regOps' = regOps + 1
    /\ \E id \in 1..(nextId - 1) : markDestroyedCall(BotWorldKey, id)
    /\ UNCHANGED <<pc, mutexVars, world, toolVars, loaded, saveVars, disk, buf, fileReads, ioErrors,
                   skillVars>>

SkillStep(t) ==
    \/ OpenStart(t)
    \/ NavSettle(t)
    \/ LookSettle(t)
    \/ OpenSettle(t)
    \/ UseSettle(t)
    \/ CloseStructured(t)
    \/ CloseGeneric(t)

\* AccessSpec: skill invocations against a registry that label_chest and
\* markDestroyed change while they run.
AccessNext ==
    \/ \E t \in PolicyTasks : Invoke(t) \/ SkillStep(t)
    \/ LabelChest
    \/ MarkDestroyed

AccessSpec == InitAccess /\ [][AccessNext]_vars

\* SessionSpec: concurrent skill invocations of one bot, each raced against
\* the server's timer; the registry stays as loaded.
SessionNext == \E t \in SkillTasks : Invoke(t) \/ SkillStep(t) \/ Timeout(t)

SessionSpec == InitAccess /\ [][SessionNext]_vars

\* The event loop runs every continuation that is ready, and every world
\* call settles unless it is one that hangs (the explicit "hang" choices).
FairSessionSpec == SessionSpec /\ \A t \in SkillTasks : WF_vars(SkillStep(t))

\* part_000:104-109  serviceParams.signal fires while the skill is in
\* progress; the listener, when registered, calls pathfinder.stop().  Nothing
\* else in the skills or in runExclusive reads the signal.
Abort(t) ==
    /\ pc[t] \notin {"idle", "done"}
    /\ ~signal[t].aborted
    /\ signal' = [signal EXCEPT ![t] = [aborted |-> TRUE, at |-> pc[t],
                                        stopAsked |-> onAbortListening(pc[t])]]
    /\ UNCHANGED <<pc, mutexVars, storeVars, skillVars, transfer, scan, params, window>>

\* CancelSpec: the skill invocations of SessionSpec, each with a signal that
\* may fire at any moment of the invocation.
CancelNext == \E t \in SkillTasks : Invoke(t) \/ SkillStep(t) \/ Abort(t)

CancelSpec == InitAccess /\ [][CancelNext]_vars

FairCancelSpec == CancelSpec /\ \A t \in SkillTasks : WF_vars(SkillStep(t))

(***************************************************************************)
(* LoadSpec: skill invocations right after process start.  Each one awaits *)
(* loadStore() (label_chest.ts:21) and then labels a chest; saves run from *)
(* the timer that scheduleSave sets.                                       *)
(***************************************************************************)
\* JSON.stringify(store): the file that holds the store
FileOf(worlds) == [kind |-> "store", worlds |-> worlds]

\* a file that JSON.parse rejects, or whose value has no `worlds`
CorruptFile == [kind |-> "corrupt", worlds |-> <<>>]

\* a record as label_chest builds it (label_chest.ts:26-39)
LabelRecord(label, notes, hidden, forbidden, det, dimension) ==
    [id |-> 0, label |-> label, notes |-> notes, hidden |-> hidden,
     forbidden |-> forbidden, type |-> det.type, positions |-> det.positions,
     primary |-> det.primary, dimension |-> dimension, destroyed |-> FALSE]

\* a registry file written by an earlier process: one chest labelled "b"
SavedFile ==
    FileOf([k \in {BotWorldKey} |->
              <<[LabelRecord(<<"b">>, "", FALSE, FALSE,
                             Detected("barrel", <<<<3, 64, 0>>>>), "overworld")
                   EXCEPT !.id = 9]>>])

InitialFiles == {NoFile, CorruptFile, SavedFile}

InitLoadSpec ==
    /\ pc = [t \in Tasks |-> "idle"]
    /\ InitMutex
    /\ InitSkills
    /\ InitTools
    /\ store = <<>>
    /\ nextId = 1
    /\ world \in Layouts
    /\ regOps = 0
    /\ \E file \in InitialFiles : InitLoad(FALSE, file)
    /\ InitLog

\* chestStore.ts:64-79  loadStore up to its await: it returns at once when
\* `loaded` is set; else it starts reading the file, or, when there is no
\* file, starts writing the store out
loadStoreEnter(t) ==
    /\ pc[t] = "idle"
    /\ IF loaded
       THEN /\ pc' = [pc EXCEPT ![t] = "ready"]
            /\ UNCHANGED <<buf, fileReads>>
       ELSE IF disk.kind # "absent"
       THEN /\ pc' = [pc EXCEPT ![t] = "reading"]
            /\ fileReads' = fileReads + 1
            /\ UNCHANGED buf
       ELSE /\ pc' = [pc EXCEPT ![t] = "writing"]
            /\ buf' = [buf EXCEPT ![t] = FileOf(store)]
            /\ UNCHANGED fileReads
    /\ UNCHANGED <<mutexVars, store, nextId, world, regOps, loaded, savePending,
                   burst, saveVars, disk, ioErrors, logVars, skillVars>>

loadStoreCall(t) == loadStoreEnter(t) /\ UNCHANGED toolVars

\* chestStore.ts:80-85  how loadStore settles after its file I/O: the catch
\* block logs an error and the function returns
loadStoreRethrows(ok) == IF ok THEN "ready" ELSE "failed"
loadStoreSettles(ok) == "ready"

\* chestStore.ts:71-85  fsp.readFile settles: the parsed value replaces the
\* store when it has `worlds`; a read or parse error is logged; `loaded` is
\* set on every path
loadStoreRead(t) ==
    /\ pc[t] = "reading"
    /\ \E readOk \in BOOLEAN :
          LET ok == readOk /\ disk.kind = "store" IN
          /\ store' = IF ok THEN disk.worlds ELSE store
          /\ pc' = [pc EXCEPT ![t] = loadStoreSettles(ok)]
          /\ ioErrors' = IF ok THEN ioErrors ELSE [ioErrors EXCEPT !.loads = @ \cup {t}]
    /\ loaded' = TRUE
    /\ UNCHANGED <<mutexVars, nextId, world, toolVars, regOps, savePending, burst, saveVars,
                   disk, buf, fileReads, logVars, skillVars>>

\* chestStore.ts:78-85  fsp.writeFile settles
loadStoreWritten(t) ==
    /\ pc[t] = "writing"
    /\ \E writeOk \in BOOLEAN :
          /\ disk' = IF writeOk THEN buf[t] ELSE disk
          /\ pc' = [pc EXCEPT ![t] = loadStoreSettles(writeOk)]
          /\ ioErrors' = IF writeOk THEN ioErrors ELSE [ioErrors EXCEPT !.loads = @ \cup {t}]
    /\ loaded' = TRUE
    /\ UNCHANGED <<mutexVars, store, nextId, world, toolVars, regOps, savePending, burst,
                   saveVars, buf, fileReads, logVars, skillVars>>

\* label_chest.ts:22-48  after loadStore: the chest is upserted
LabelAfterLoad(t) ==
    /\ pc[t] = "ready"
    /\ pc' = [pc EXCEPT ![t] = "done"]
    /\ \E pos \in DOMAIN world :
          LET det == detectContainerAt(pos) IN
          /\ det.ok
          /\ upsertChestCall(BotWorldKey,
                             LabelRecord(<<"V">>, "", FALSE, FALSE, det, "overworld"))
    /\ UNCHANGED <<mutexVars, world, toolVars, regOps, loaded, saveVars, disk, buf, fileReads,
                   ioErrors, skillVars>>

\* time passes: every pending timer is one tick older (ages stop at the
\* window, from where on the timer may fire)
Tick ==
    /\ \E i \in DOMAIN savePending : savePending[i] < DebounceTicks
    /\ savePending' = [i \in DOMAIN savePending |->
                          IF savePending[i] < DebounceTicks THEN savePending[i] + 1
                          ELSE savePending[i]]
    /\ UNCHANGED <<pc, mutexVars, store, nextId, world, toolVars, regOps, loaded, burst,
                   saveVars, disk, buf, fileReads, ioErrors, logVars, skillVars>>

\* the sequence without its i-th element
Without(seq, i) == SubSeq(seq, 1, i - 1) \o SubSeq(seq, i + 1, Len(seq))

\* chestStore.ts:56  the text that is written: JSON.stringify(store), taken
\* when the timer callback runs
SaveTextStale == lastWrite
SaveText == FileOf(store)

\* chestStore.ts:51-56  a save timer that is due fires: the store is
\* serialized and fsp.writeFile is started
TimerFires ==
    /\ \E i \in DOMAIN savePending :
          /\ savePending[i] >= DebounceTicks
          /\ savePending' = Without(savePending, i)
    /\ writing' = Append(writing, SaveText)
    /\ lastWrite' = SaveText
    /\ burst' = [burst EXCEPT !.writes = @ + 1]
    /\ UNCHANGED <<pc, mutexVars, store, nextId, world, toolVars, regOps, loaded, disk, buf,
                   fileReads, ioErrors, logVars, skillVars>>

\* chestStore.ts:56-60  a write in progress settles; its failure is logged
WriteSettles ==
    /\ \E i \in DOMAIN writing, writeOk \in BOOLEAN :
          /\ disk' = IF writeOk THEN writing[i] ELSE disk
          /\ writing' = Without(writing, i)
          /\ ioErrors' = IF writeOk THEN ioErrors ELSE [ioErrors EXCEPT !.saves = @ + 1]
    /\ UNCHANGED <<pc, mutexVars, store, nextId, world, toolVars, regOps, loaded, savePending,
                   burst, lastWrite, buf, fileReads, logVars, skillVars>>

SaveStep == Tick \/ TimerFires \/ WriteSettles

LoadNext ==
    \/ \E t \in Tasks : \/ loadStoreCall(t)
                        \/ loadStoreRead(t)
                        \/ loadStoreWritten(t)
                        \/ LabelAfterLoad(t)
    \/ SaveStep

LoadSpec == InitLoadSpec /\ [][LoadNext]_vars

(***************************************************************************)
(* LabelSpec: concurrent label_chest invocations with every kind of        *)
(* params, at process start.                                               *)
(***************************************************************************)
LabelTasks == 1..NumLabelCalls

\* Math.floor of a coordinate given in half blocks
Floor(halves) == halves \div 2

\* params of label_chest: the middle of the first chest, the stone block, a
\* position outside the loaded blocks; a blank, a missing and a numeric label;
\* a missing x
ParamsAt(xHalves, label) == [x |-> Num(xHalves), y |-> Num(128), z |-> Num(1), label |-> label]
LabelParams ==
    {ParamsAt(1, Str(<<"V">>)), ParamsAt(6, Str(<<"V">>)), ParamsAt(9, Str(<<"V">>)),
     ParamsAt(1, Str(<<" ">>)), ParamsAt(1, Undefined), ParamsAt(1, Num(2)),
     [ParamsAt(1, Str(<<"V">>)) EXCEPT !.x = Undefined]}

\* label_chest.ts:14
paramsAccepted(p) ==
    /\ p.x.type = "number" /\ p.y.type = "number" /\ p.z.type = "number"
    /\ p.label.type = "string" /\ trim(p.label.str) # <<>>

\* label_chest.ts:23
paramsPos(p) == <<Floor(p.x.halves), Floor(p.y.halves), Floor(p.z.halves)>>

\* label_chest.ts:12-21  the params are checked; loadStore is called
LabelCall(t) ==
    /\ pc[t] = "idle"
    /\ \E p \in LabelParams :
          /\ params' = [params EXCEPT ![t] = p]
          /\ IF paramsAccepted(p)
             THEN loadStoreEnter(t)
             ELSE /\ pc' = [pc EXCEPT ![t] = "refused"]
                  /\ UNCHANGED <<mutexVars, storeVars, skillVars>>
    /\ UNCHANGED <<transfer, scan, signal, window>>

\* label_chest.ts:22-52  after loadStore: detection throws and the skill
\* returns false, or the chest is upserted and the save requested
LabelDetect(t) ==
    /\ pc[t] = "ready"
    /\ LET det == detectContainerAt(paramsPos(params[t])) IN
       IF det.ok
       THEN /\ pc' = [pc EXCEPT ![t] = "done"]
            /\ upsertChestCall(BotWorldKey,
                               LabelRecord(trim(params[t].label.str), "", FALSE, FALSE, det,
                                           "overworld"))
       ELSE /\ pc' = [pc EXCEPT ![t] = "refused"]
            /\ UNCHANGED <<store, nextId, savePending, burst, logVars>>
    /\ UNCHANGED <<mutexVars, world, toolVars, regOps, loaded, saveVars, disk, buf, fileReads,
                   ioErrors, skillVars>>

LabelNext ==
    \/ \E t \in LabelTasks : \/ LabelCall(t)
                             \/ loadStoreRead(t)
                             \/ loadStoreWritten(t)
                             \/ LabelDetect(t)
    \/ SaveStep

LabelSpec == InitLoadSpec /\ [][LabelNext]_vars

(***************************************************************************)
(* RegistrySpec: the exported registry functions called in any order, for  *)
(* bots in different worlds.  Records are built as label_chest builds      *)
(* them, from what detectContainerAt finds; labels are passed as given.    *)
(***************************************************************************)
\* a row with a triple of chests
RegistryLayout == Row(<<"chest", "chest", "chest", "stone">>)

\* (host, port, dimension) of the bots: getWorldKey, chestStore.ts:100-105
WorldInputs ==
    {[host |-> "localhost", port |-> "25565", dimension |-> "overworld"],
     [host |-> "localhost", port |-> "25565", dimension |-> "the_nether"]}

WorldKeyOf(w) == getWorldKey(w.host, w.port, w.dimension)

WorldKeys == {WorldKeyOf(w) : w \in WorldInputs}

\* labels as passed to upsertChest and removeChest
RegistryLabels == {<<"V">>, <<"v">>, <<" ", "V">>, <<"b">>}

\* notes, hidden and forbidden as passed
RegistryAttrs ==
    {[notes |-> "", hidden |-> FALSE, forbidden |-> FALSE],
     [notes |-> "n", hidden |-> TRUE, forbidden |-> FALSE],
     [notes |-> "", hidden |-> FALSE, forbidden |-> TRUE]}

InitRegistry ==
    /\ pc = [t \in Tasks |-> "idle"]
    /\ InitMutex
    /\ InitSkills
    /\ InitTools
    /\ store = <<>>
    /\ nextId = 1
    /\ world = RegistryLayout
    /\ regOps = 0
    /\ InitLoad(TRUE, NoFile)
    /\ InitLog

RegistryFrame ==
    UNCHANGED <<pc, mutexVars, world, toolVars, loaded, saveVars, disk, buf, fileReads, ioErrors,
                skillVars>>

\* chestStore.ts:130-164
UpsertChest ==
    /\ regOps < MaxCalls
    /\ regOps' = regOps + 1
    /\ \E w \in WorldInputs, pos \in DOMAIN world, label \in RegistryLabels,
          a \in RegistryAttrs :
          LET det == detectContainerAt(pos) IN
          /\ det.ok
          /\ upsertChestCall(WorldKeyOf(w),
                             LabelRecord(label, a.notes, a.hidden, a.forbidden, det,
                                         w.dimension))
    /\ RegistryFrame

\* chestStore.ts:177-185
MarkDestroyedById ==
    /\ regOps < MaxCalls
    /\ regOps' = regOps + 1
    /\ \E w \in WorldInputs, id \in 1..nextId : markDestroyedCall(WorldKeyOf(w), id)
    /\ RegistryFrame

\* chestStore.ts:166-175
RemoveChest ==
    /\ regOps < MaxCalls
    /\ regOps' = regOps + 1
    /\ \E w \in WorldInputs,
          idOrLabel \in {ById(i) : i \in 1..nextId} \cup {ByLabel(l) : l \in RegistryLabels} :
          removeChestCall(WorldKeyOf(w), idOrLabel)
    /\ RegistryFrame

RegistryNext == UpsertChest \/ MarkDestroyedById \/ RemoveChest

RegistrySpec == InitRegistry /\ [][RegistryNext]_vars

(***************************************************************************)
(* SaveSpec: save requests (registry mutations and saveStore calls), the   *)
(* debounce timer and the file writes, with time in ticks.                 *)
(***************************************************************************)
InitSave ==
    /\ pc = [t \in Tasks |-> "idle"]
    /\ InitMutex
    /\ InitSkills
    /\ InitTools
    /\ store = <<>>
    /\ nextId = 1
    /\ world \in Layouts
    /\ regOps = 0
    /\ InitLoad(TRUE, NoFile)
    /\ InitLog

\* chestStore.ts:130-164  a mutation of the registry, which requests a save
SaveMutation ==
    /\ regOps < MaxSaveReqs
    /\ regOps' = regOps + 1
    /\ \E pos \in DOMAIN world, label \in LabelInputs :
          LET det == detectContainerAt(pos) IN
          /\ det.ok
          /\ upsertChestCall(BotWorldKey,
                             LabelRecord(trim(label), "", FALSE, FALSE, det, "overworld"))
    /\ RegistryFrame

\* chestStore.ts:88-90  saveStore()
saveStore ==
    /\ regOps < MaxSaveReqs
    /\ regOps' = regOps + 1
    /\ scheduleSaveCall
    /\ UNCHANGED <<store, nextId, logVars>>
    /\ RegistryFrame

SaveNext == SaveMutation \/ saveStore \/ SaveStep

SaveSpec == InitSave /\ [][SaveNext]_vars

\* Time passes, a timer that is due fires, and a file write settles.
FairSaveSpec == SaveSpec /\ WF_vars(Tick) /\ WF_vars(TimerFires) /\ WF_vars(WriteSettles)

(***************************************************************************)
(* deposit_items.ts:23-41, withdraw_items.ts:15-33: depositType and        *)
(* withdrawType.  Both try one bulk transfer and, when it rejects, move    *)
(* one unit at a time until a move rejects or `count` moves were made.     *)
(* The transfer primitive (window.deposit / window.withdraw) is not code   *)
(* of this repository: it resolves when it moved the amount asked for; it  *)
(* rejects when it could not, and may reject for any other reason, having  *)
(* moved any part of the amount by then.  A single-unit transfer rejects   *)
(* when the unit cannot be moved.                                          *)
(* `source` is what the source side still holds of the type, `room` what   *)
(* the destination side can still take; `held` and `space` are their       *)
(* values at the call and `actual` counts the units that really changed    *)
(* sides (history).                                                        *)
(***************************************************************************)
Min(a, b) == IF a <= b THEN a ELSE b
Max(a, b) == IF a >= b THEN a ELSE b

\* the counts tried: small ones, and the 64 requested / 40 held of the scenario
Requested == (1..MaxUnits) \cup {64}
Held == (0..MaxUnits) \cup {40}
Room == (0..MaxUnits) \cup {64}

\* the units a rejected bulk transfer of n units may have moved before it
\* rejected, when the two sides allow `limit` units
BulkMoved(n, limit) == 0..limit

\* deposit_items.ts:106 / withdraw_items.ts:114  what the skill reports as failed
ReportedFailed(total, moved) == IF moved < total THEN total - moved ELSE 0

\* deposit_items.ts:27,39  the function returns, the skill reports
Return(value) ==
    [transfer EXCEPT !.phase = "returned", !.returned = value,
                     !.failed = ReportedFailed(transfer.count, value)]

\* deposit_items.ts:23-26  depositType is called and awaits window.deposit(typeId, null, count)
TransferCall(kind) ==
    /\ transfer.phase = "idle"
    /\ \E count \in Requested, held \in Held, room \in Room :
          transfer' = [NoTransfer EXCEPT !.phase = "bulk", !.kind = kind, !.count = count,
                                         !.source = held, !.held = held, !.room = room,
                                         !.space = room]
    /\ UNCHANGED <<pc, mutexVars, storeVars, skillVars, scan, signal, params, window>>

depositType == TransferCall("deposit")

\* withdraw_items.ts:15-18
withdrawType == TransferCall("withdraw")

\* deposit_items.ts:26-30  the bulk transfer settles: resolved, the function
\* returns count; rejected, it enters the loop with moved = 0
BulkSettles ==
    /\ transfer.phase = "bulk"
    /\ LET limit == Min(transfer.source, transfer.room) IN
       \/ /\ transfer.count <= limit
          /\ transfer' = [Return(transfer.count) EXCEPT
                             !.source = @ - transfer.count, !.room = @ - transfer.count,
                             !.actual = @ + transfer.count, !.bulkTries = @ + 1]
       \/ \E k \in BulkMoved(transfer.count, Min(limit, transfer.count - 1)) :
             transfer' = [transfer EXCEPT !.phase = "units", !.source = @ - k,
                                          !.room = @ - k, !.actual = @ + k,
                                          !.moved = 0, !.i = 0, !.bulkTries = @ + 1]
    /\ UNCHANGED <<pc, mutexVars, storeVars, skillVars, scan, signal, params, window>>

\* deposit_items.ts:31  the loop condition i < count no longer holds
LoopDoneNever(i, count) == FALSE
LoopDone(i, count) == i >= count

\* deposit_items.ts:31-39  one pass of the loop: window.deposit(typeId, null, 1)
\* settles; resolved, moved++ and the loop goes on while i < count; rejected,
\* break; after the loop the function returns moved
UnitSettles ==
    /\ transfer.phase = "units"
    /\ IF LoopDone(transfer.i, transfer.count)
       THEN transfer' = Return(transfer.moved)
       ELSE IF transfer.source >= 1 /\ transfer.room >= 1
       THEN transfer' = [transfer EXCEPT !.source = @ - 1, !.room = @ - 1, !.actual = @ + 1,
                                         !.moved = @ + 1, !.i = @ + 1, !.unitTries = @ + 1]
       ELSE transfer' = [Return(transfer.moved) EXCEPT !.unitTries = @ + 1,
                                                       !.unitFails = @ + 1]
    /\ UNCHANGED <<pc, mutexVars, storeVars, skillVars, scan, signal, params, window>>

TransferNext == depositType \/ withdrawType \/ BulkSettles \/ UnitSettles

TransferSpec == Init /\ [][TransferNext]_vars

\* every call of the transfer primitive settles (it resolves or rejects)
FairTransferSpec == TransferSpec /\ WF_vars(BulkSettles) /\ WF_vars(UnitSettles)

(***************************************************************************)
(* SlotSpec: the slot helpers of chestUtils applied to windows with and    *)
(* without a declared inventory range.                                     *)
(***************************************************************************)
\* window.slots[i]: undefined (an empty slot) past the end
slotAt(w, i) == IF i + 1 \in DOMAIN w.slots THEN w.slots[i + 1] ELSE Null

\* part_000:168-177
getContainerSlotInfoWholeWindow(w) ==
    LET totalSlots == Len(w.slots)
        inventoryEnd == IF w.inventoryEnd.declared THEN w.inventoryEnd.n ELSE totalSlots
    IN [containerStart |-> 0, containerEnd |-> totalSlots, inventoryStart |-> totalSlots,
        inventoryEnd |-> inventoryEnd, containerSize |-> totalSlots]
getContainerSlotInfo(w) ==
    LET totalSlots == Len(w.slots)
        inventoryStart == IF w.inventoryStart.declared THEN w.inventoryStart.n
                          ELSE Max(totalSlots - InventorySlots, 0)
        inventoryEnd == IF w.inventoryEnd.declared THEN w.inventoryEnd.n ELSE totalSlots
        containerStart == 0
        containerEnd == inventoryStart
    IN [containerStart |-> containerStart, containerEnd |-> containerEnd,
        inventoryStart |-> inventoryStart, inventoryEnd |-> inventoryEnd,
        containerSize |-> containerEnd - containerStart]

\* part_000:184-187  one iteration: the stack's count is added under its name
\* (a new name is appended, as a new key of `summary` is)
addToSummary(summary, it) ==
    IF \E k \in DOMAIN summary : summary[k].name = it.name
    THEN [k \in DOMAIN summary |->
             IF summary[k].name = it.name
             THEN [summary[k] EXCEPT !.count = @ + it.count] ELSE summary[k]]
    ELSE Append(summary, Item(it.name, it.count))

\* part_000:182-188  the loop from slot i on
RECURSIVE summarizeFrom(_, _, _, _)
summarizeFrom(w, i, containerEnd, summary) ==
    IF i >= containerEnd THEN summary
    ELSE summarizeFrom(w, i + 1, containerEnd,
                       IF slotAt(w, i) = Null THEN summary
                       ELSE addToSummary(summary, slotAt(w, i)))

\* part_000:179-190
summarizeContainerContents(w) ==
    LET info == getContainerSlotInfo(w)
    IN summarizeFrom(w, info.containerStart, info.containerEnd, <<>>)

\* part_000:195-197  the loop from slot i on
RECURSIVE countFreeFrom(_, _, _)
countFreeFrom(w, i, containerEnd) ==
    IF i >= containerEnd THEN 0
    ELSE (IF slotAt(w, i) = Null THEN 1 ELSE 0) + countFreeFrom(w, i + 1, containerEnd)

\* part_000:192-199
countFreeContainerSlots(w) ==
    LET info == getContainerSlotInfo(w)
    IN countFreeFrom(w, info.containerStart, info.containerEnd)

\* the windows tried: up to MaxContainerSlots container slots, each empty or
\* holding a stack, followed by no inventory, by one slot or by the 36 slots
\* of the player inventory, all empty or all holding the same stack; the
\* window declares its inventory range or does not
SlotContents == {Null, Item("dirt", 1), Item("dirt", 2), Item("stone", 3)}
TailLengths == {0, 1, InventorySlots}
TailContents == {Null, Item("dirt", 5)}
ContainerParts == UNION {[1..n -> SlotContents] : n \in 0..MaxContainerSlots}
InventoryTail(n, it) == [i \in 1..n |-> it]
Windows ==
    UNION {{Window(c \o InventoryTail(n, it), Undeclared, Undeclared),
            Window(c \o InventoryTail(n, it), Declared(Len(c)), Declared(Len(c) + n))} :
           <<c, n, it>> \in ContainerParts \X TailLengths \X TailContents}

InitSlots ==
    /\ pc = [t \in Tasks |-> "idle"]
    /\ InitMutex
    /\ InitSkills
    /\ InitStoreEmpty
    /\ transfer = NoTransfer
    /\ scan = NoScan
    /\ signal = [t \in Tasks |-> NoSignal]
    /\ params = [t \in Tasks |-> NoParams]
    /\ window \in Windows

SlotCall(op) ==
    /\ window.op # op
    /\ window' = [window EXCEPT !.op = op,
                                !.info = getContainerSlotInfo(window),
                                !.summary = IF op = "summarizeContainerContents"
                                            THEN summarizeContainerContents(window) ELSE <<>>,
                                !.free = IF op = "countFreeContainerSlots"
                                         THEN countFreeContainerSlots(window) ELSE 0]
    /\ UNCHANGED <<pc, mutexVars, storeVars, skillVars, transfer, scan, signal, params>>

GetContainerSlotInfo == SlotCall("getContainerSlotInfo")
SummarizeContainerContents == SlotCall("summarizeContainerContents")
CountFreeContainerSlots == SlotCall("countFreeContainerSlots")

SlotNext == GetContainerSlotInfo \/ SummarizeContainerContents \/ CountFreeContainerSlots

SlotSpec == InitSlots /\ [][SlotNext]_vars

(***************************************************************************)
(* part_000:216-265, find_containers.ts:6-46, openNearbyChest.ts:17-91:    *)
(* discovery of the containers around the bot.  ScanSpec runs detection,   *)
(* label_chest and the two discovery skills on every arrangement of four   *)
(* kinds of block over an L of four cells: a row of three along x and one  *)
(* cell beside its first along z.  The bot stands on the first cell.       *)
(* bot.findBlocks is not code of this repository: it yields the matching   *)
(* blocks within maxDistance, in any order.                                *)
(***************************************************************************)
ScanCells == {<<0, 64, 0>>, <<1, 64, 0>>, <<2, 64, 0>>, <<0, 64, 1>>}
ScanBlocks == {"chest", "trapped_chest", "barrel", "stone"}
ScanLayouts == [ScanCells -> ScanBlocks]

\* a position where no block is loaded
Unloaded == <<3, 64, 0>>

\* bot.entity.position.floored()
Center == <<0, 64, 0>>

Abs(n) == IF n < 0 THEN 0 - n ELSE n

\* the square of Vec3.distanceTo
DistanceSquared(a, b) ==
    (a[1] - b[1]) * (a[1] - b[1]) + (a[2] - b[2]) * (a[2] - b[2])
        + (a[3] - b[3]) * (a[3] - b[3])

\* part_000:220-226  on the block names of the model
isContainerName(name) ==
    name \in {"chest", "trapped_chest", "barrel", "ender_chest"} \cup ShulkerNames

\* part_000:231-236  bot.findBlocks: the orders in which the matching blocks
\* within maxDistance of the point can be yielded
findBlocks(point, maxDistance) ==
    LET hits == {q \in DOMAIN world :
                    /\ isContainerName(blockAt(q))
                    /\ DistanceSquared(q, point) <= maxDistance * maxDistance}
    IN {order \in [1..Cardinality(hits) -> hits] :
           \A i, j \in DOMAIN order : i # j => order[i] # order[j]}

Entry(type, position) == [type |-> type, position |-> position]

\* part_000:241-257  the loop over the positions found, from the i-th on
RECURSIVE ScanFrom(_, _, _, _)
ScanFrom(positions, i, seen, results) ==
    IF i > Len(positions) THEN results
    ELSE IF positions[i] \in seen THEN ScanFrom(positions, i + 1, seen, results)
    ELSE LET pos == positions[i]
             det == detectContainerAt(pos)
         IN IF det.type = "double_chest"
            THEN ScanFrom(positions, i + 1, seen \cup {det.primary, det.positions[2]},
                          Append(results, Entry("double_chest", det.primary)))
            ELSE ScanFrom(positions, i + 1, seen \cup {pos},
                          Append(results, Entry(det.type, pos)))

\* part_000:216-265  on the positions that bot.findBlocks yielded
findNearbyContainers(positions, rx, ry, rz) ==
    SelectSeq(ScanFrom(positions, 1, {}, <<>>),
              LAMBDA r : /\ Abs(r.position[1] - Center[1]) <= rx
                         /\ Abs(r.position[2] - Center[2]) <= ry
                         /\ Abs(r.position[3] - Center[3]) <= rz)

\* find_containers.ts:21-24, openNearbyChest.ts:36-39  the filter on forbidden
VisibleAll(containers) == containers
Visible(containers) ==
    SelectSeq(containers,
              LAMBDA c : ~getChestByPosition(BotWorldKey, c.position).forbidden)

\* openNearbyChest.ts:47-49  the first entry at the smallest distance (the
\* sort is stable)
Nearest(visible) ==
    LET best == CHOOSE i \in DOMAIN visible :
                    \A j \in DOMAIN visible :
                        \/ DistanceSquared(visible[i].position, Center)
                               < DistanceSquared(visible[j].position, Center)
                        \/ /\ DistanceSquared(visible[i].position, Center)
                                 = DistanceSquared(visible[j].position, Center)
                           /\ i <= j
    IN visible[best]

\* the values of radius_x that find_containers is called with
RadiusInputs == {1, DefaultRadiusXZ}

InitScan ==
    /\ pc = [t \in Tasks |-> "idle"]
    /\ InitMutex
    /\ InitSkills
    /\ InitTools
    /\ store = <<>>
    /\ nextId = 1
    /\ world \in ScanLayouts
    /\ regOps = 0
    /\ InitLoad(TRUE, NoFile)
    /\ InitLog

\* part_000:50-96  detectContainerAt is called on a position
DetectAt ==
    /\ scan.calls < MaxScanCalls
    /\ \E pos \in DOMAIN world \cup {Unloaded} :
          scan' = [NoScan EXCEPT !.op = "detectContainerAt", !.calls = scan.calls + 1,
                                 !.pos = pos,
                                 !.det = detectContainerAt(pos)]
    /\ UNCHANGED <<pc, mutexVars, storeVars, skillVars, transfer, signal, params, window>>

\* label_chest.ts:14-42  the registry changes: the last result is no longer
\* a result on the present registry
ScanLabelChest ==
    /\ regOps < MaxScanLabels
    /\ regOps' = regOps + 1
    /\ \E pos \in DOMAIN world, label \in LabelInputs, forbidden \in BOOLEAN :
          LET det == detectContainerAt(pos)
          IN IF trim(label) = <<>> \/ ~det.ok
             THEN UNCHANGED <<store, nextId, savePending, burst, logVars>>
             ELSE upsertChestCall(BotWorldKey,
                                  LabelRecord(trim(label), "", FALSE, forbidden, det,
                                              "overworld"))
    /\ scan' = NoScan
    /\ UNCHANGED <<pc, mutexVars, world, transfer, signal, params, window,
                   loaded, saveVars, disk, buf,
                   fileReads, ioErrors, skillVars>>

\* find_containers.ts:6-46
find_containers ==
    /\ scan.calls < MaxScanCalls
    /\ \E rx \in RadiusInputs :
       \E positions \in findBlocks(Center, Max(rx, DefaultRadiusXZ)) :
          LET containers == findNearbyContainers(positions, rx, DefaultRadiusY,
                                                 DefaultRadiusXZ)
          IN scan' = [NoScan EXCEPT !.op = "find_containers", !.calls = scan.calls + 1,
                                    !.found = containers,
                                    !.listed = Visible(containers), !.outcome = "listed"]
    /\ UNCHANGED <<pc, mutexVars, storeVars, skillVars, transfer, signal, params, window>>

\* openNearbyChest.ts:17-91  the choice of the container; opening it is
\* openContainerAt under runExclusive, which succeeds or throws
openNearbyChest ==
    /\ scan.calls < MaxScanCalls
    /\ \E positions \in findBlocks(Center, NearbyRadiusXZ), opened \in BOOLEAN :
          LET containers == findNearbyContainers(positions, NearbyRadiusXZ, NearbyRadiusY,
                                                 NearbyRadiusXZ)
              visible == Visible(containers)
          IN scan' = [NoScan EXCEPT
                         !.op = "openNearbyChest", !.calls = scan.calls + 1,
                         !.found = containers, !.listed = visible,
                         !.target = IF visible = <<>> THEN <<>> ELSE <<Nearest(visible)>>,
                         !.outcome = IF containers = <<>> THEN "none found"
                                     ELSE IF visible = <<>> THEN "only forbidden"
                                     ELSE IF opened THEN "opened" ELSE "failed"]
    /\ UNCHANGED <<pc, mutexVars, storeVars, skillVars, transfer, signal, params, window>>

ScanNext == DetectAt \/ ScanLabelChest \/ find_containers \/ openNearbyChest

ScanSpec == InitScan /\ [][ScanNext]_vars

(***************************************************************************)
(* Properties.                                                             *)
(***************************************************************************)
\* the calls of seq that were made for lock key lk, in order
OnKey(seq, lk) == SelectSeq(seq, LAMBDA t : lockKeyOf[t] = lk)

Range(f) == {f[i] : i \in DOMAIN f}

IsPrefix(a, b) == Len(a) <= Len(b) /\ SubSeq(b, 1, Len(a)) = a

\* call t is inside its execution window: fn has started and has not settled
InFn(t) == pc[t] \in {"running", "hung", "nav", "look", "opening", "hungOpen"}

\* call t has a continuation queued or in flight on its key
InChain(t) == pc[t] = "waiting" \/ InFn(t)

\* C1: for every lock key, the execution windows (fn start to fn settle) of
\* two operations submitted for that key never overlap.
C1_MutualExclusion ==
    \A t, u \in Tasks :
        (t # u /\ lockKeyOf[t] = lockKeyOf[u]) => ~(InFn(t) /\ InFn(u))

\* C1 witness: an operation is executing while another one, submitted for the
\* same key, is held back.
C1_Witness ==
    \E t, u \in Tasks :
        /\ t # u
        /\ lockKeyOf[t] = lockKeyOf[u]
        /\ pc[t] = "running"
        /\ pc[u] = "waiting"

\* C3: on every key, operations start in the order in which their
\* runExclusive calls were made, whatever earlier operations did.
C3_Fifo == \A lk \in LockKeys : IsPrefix(OnKey(startSeq, lk), OnKey(callSeq, lk))

\* C3 witness: three callers queued on one key have all started, the first
\* of them having failed.
C3_Witness ==
    \E lk \in LockKeys :
        /\ Len(OnKey(callSeq, lk)) = 3
        /\ Len(OnKey(startSeq, lk)) = 3
        /\ fnOutcome[OnKey(callSeq, lk)[1]] = "throw"

\* C4: an operation's error reaches its own caller and no other caller (a
\* caller sees a rejection exactly when its own fn threw), and the operation
\* queued right behind a failed one still gets to run.
C4_ErrorIsolation ==
    /\ [](\A t \in Tasks : (result[t] = "rejected") <=> (fnOutcome[t] = "throw"))
    /\ \A t, u \in Tasks :
          (fnOutcome[t] = "throw" /\ prev[u] = ThenPromise(t)) ~> (u \in Range(startSeq))

\* C4 witness: the operation queued behind a failed one has run and returned
\* to its caller, the failed one's caller having got the error.
C4_Witness ==
    \E t, u \in Tasks :
        /\ fnOutcome[t] = "throw"
        /\ result[t] = "rejected"
        /\ prev[u] = ThenPromise(t)
        /\ result[u] = "returned"

\* C6: whenever no operation is queued or in flight for a key, the lock map
\* holds no entry for that key.
C6_EntryDiscarded ==
    \A lk \in DOMAIN locks : \E t \in Tasks : lockKeyOf[t] = lk /\ InChain(t)

\* skill t holds a window: it has been handed one and closeContainer has not
\* returned yet
InSession(t) == gotWindow[t] /\ ~closeDone[t]

\* C2: for one bot, no two accesses are at the same time between having
\* opened a container window and having closed it.
C2_OneSessionAtATime ==
    \A t, u \in SkillTasks : t # u => ~(InSession(t) /\ InSession(u))

\* C5: once the 30 s deadline has fired for a skill that is queued for or
\* executing its exclusive open, an operation waiting on the same key
\* eventually starts, however the wrapped operation behaves.
C5_TimeoutReleasesLock ==
    \A t, u \in SkillTasks :
        (timedOut[t] /\ InChain(t) /\ t # u /\ pc[u] = "waiting") ~> (pc[u] # "waiting")

\* C7: an access that addresses a forbidden record by its label ends with the
\* access-denied outcome and never opens the container.
C7_ForbiddenLabelDenied ==
    \A t \in PolicyTasks :
        req[t].forbLabel =>
            /\ ~openIssued[t]
            /\ pc[t] = "done" => outcome[t] = "denied"

\* C8: an access addressed by coordinates that are a member coordinate of a
\* non-destroyed forbidden record never opens the container and never
\* succeeds (the claim also asks for the denied outcome).
C8_ForbiddenCoordsNeverOpened ==
    \A t \in PolicyTasks :
        req[t].forbCoord => (~openIssued[t] /\ ~gotWindow[t] /\ outcome[t] # "ok")

\* the access of t fails in resolution or in the policy check
FailsResolution(t) ==
    \/ outcome[t] \in {"validation", "notfound", "denied"}
    \/ req[t].noContainer

C10_WindowClosed ==
    /\ [](\A t \in SkillTasks :
            /\ closeCalls[t] <= 1
            /\ closeDone[t] => (closeCalls[t] = 1 /\ gotWindow[t])
            /\ (pc[t] = "done" /\ gotWindow[t]) => closeDone[t]
            /\ (pc[t] = "done" /\ gotWindow[t] /\ ~useThrew[t]) => outcome[t] = "ok")
    /\ \A t \in SkillTasks : gotWindow[t] ~> (closeDone[t] \/ pc[t] = "hungUse")

\* C10 witness: a window was closed after an operation during its use threw.
C10_Witness ==
    \E t \in SkillTasks :
        gotWindow[t] /\ useThrew[t] /\ closeDone[t] /\ closeCalls[t] = 1 /\ pc[t] = "done"

\* C11: an operation waits only for operations of its own lock key: a queued
\* operation with no unfinished operation submitted before it on the same
\* key can start, whatever operations on other keys are doing.
C11_KeysIndependent ==
    \A t \in Tasks :
        (/\ pc[t] = "waiting"
         /\ \A u \in Range(OnKey(callSeq, lockKeyOf[t])) :
                InChain(u) => \E i, j \in DOMAIN callSeq :
                                 callSeq[i] = t /\ callSeq[j] = u /\ i <= j)
        => PrevSettled(t)

\* C11 witness: operations on two different keys are executing at once, one
\* of them never completing.
C11_Witness ==
    \E t, u \in Tasks :
        /\ lockKeyOf[t] # "" /\ lockKeyOf[u] # ""
        /\ lockKeyOf[t] # lockKeyOf[u]
        /\ pc[t] = "hung"
        /\ pc[u] = "running"
        /\ \E i, j \in DOMAIN startSeq : startSeq[i] = t /\ startSeq[j] = u /\ i < j

\* C12: the persisted registry file is read at most once in a process
\* lifetime, whatever the interleaving of the callers of loadStore.
C12_ReadAtMostOnce == fileReads <= 1

\* the chests of the world of the last registry call, after the call
After == chestsOf(lastCall.world)

\* the chests of the world of the last registry call, before the call
Before == lastCall.before

\* how many records a set of indices names
Count(S) == Cardinality(S)

\* two labels are equal ignoring case
SameLabel(a, b) == toLowerCase(a) = toLowerCase(b)

\* C13: two upsertChest calls in a row with the same label and the same
\* primary coordinate in the same world: the second returns the record the
\* first returned (same id), adds no record, and exactly one record carries
\* that label at that primary coordinate.
C13_UpsertIdempotent ==
    (/\ lastCall.op = "upsertChest"
     /\ prevCall.op = "upsertChest"
     /\ lastCall.world = prevCall.world
     /\ lastCall.arg.label = prevCall.arg.label
     /\ lastCall.arg.primary = prevCall.arg.primary)
    => /\ lastCall.id = prevCall.id
       /\ Len(After) = Len(lastCall.before)
       /\ Count({i \in DOMAIN After : After[i].id = lastCall.id}) = 1
       /\ Count({i \in DOMAIN After :
                    /\ toLowerCase(After[i].label) = toLowerCase(trim(lastCall.arg.label))
                    /\ After[i].primary = lastCall.arg.primary}) = 1

\* C13 witness: the same padded label was upserted twice at one primary
\* coordinate in a world that holds another record, the first call having
\* created the record.
C13_Witness ==
    /\ lastCall.op = "upsertChest"
    /\ prevCall.op = "upsertChest"
    /\ lastCall.world = prevCall.world
    /\ lastCall.arg.label = <<" ", "V">>
    /\ prevCall.arg.label = <<" ", "V">>
    /\ lastCall.arg.primary = prevCall.arg.primary
    /\ lastCall.id = prevCall.id
    /\ Len(After) = 2
    /\ After[2].id = lastCall.id

\* what upsertChest makes of an existing record c when it is given rec
Overwritten(c, rec) ==
    [id |-> c.id, label |-> trim(rec.label), notes |-> rec.notes, hidden |-> rec.hidden,
     forbidden |-> rec.forbidden, type |-> rec.type, positions |-> rec.positions,
     primary |-> rec.primary, dimension |-> rec.dimension, destroyed |-> FALSE]

\* C14: upsertChest merges instead of appending: when some record of the
\* world has a label equal ignoring case to the input label, or else the
\* input primary coordinate, no record is added and a matching record (by
\* label first) carries the input fields with destroyed cleared; the number
\* of records grows, by one, only when neither match exists.
C14_MergeNotAppend ==
    lastCall.op = "upsertChest" =>
        LET rec == lastCall.arg
            labelHits == {i \in DOMAIN Before : SameLabel(Before[i].label, rec.label)}
            primaryHits == {i \in DOMAIN Before : Before[i].primary = rec.primary}
            hits == IF labelHits # {} THEN labelHits ELSE primaryHits
        IN IF hits # {}
           THEN /\ Len(After) = Len(Before)
                /\ \E i \in hits :
                      /\ After[i] = Overwritten(Before[i], rec)
                      /\ \A j \in DOMAIN Before \ {i} : After[j] = Before[j]
           ELSE Len(After) <= Len(Before) + 1

\* C15: no two records of a world have labels that are equal ignoring case.
C15_LabelsUnique ==
    \A w \in DOMAIN store : \A i, j \in DOMAIN store[w] :
        i # j => ~SameLabel(store[w][i].label, store[w][j].label)

\* C16: for every non-destroyed record with two positions, getChestByPosition
\* returns that record for either of them.
C16_EitherMemberResolves ==
    \A w \in DOMAIN store : \A i \in DOMAIN store[w] :
        LET c == store[w][i] IN
        (~c.destroyed /\ Len(c.positions) = 2)
        => /\ getChestByPosition(w, c.positions[1]) = c
           /\ getChestByPosition(w, c.positions[2]) = c

\* C17: listChests returns exactly the records that are not destroyed, not
\* forbidden and, unless includeHidden is set, not hidden, in stored order.
C17_ListFilter ==
    \A w \in WorldKeys, includeHidden \in BOOLEAN :
        LET chests == chestsOf(w)
            listed == listChests(w, includeHidden)
        IN /\ \A i \in DOMAIN listed :
                 /\ ~listed[i].destroyed
                 /\ ~listed[i].forbidden
                 /\ listed[i].hidden => includeHidden
                 /\ listed[i] \in Range(chests)
           /\ \A i \in DOMAIN chests :
                 (/\ ~chests[i].destroyed
                  /\ ~chests[i].forbidden
                  /\ chests[i].hidden => includeHidden)
                 => chests[i] \in Range(listed)

\* C17 witness: a world holds a forbidden and a hidden record; the forbidden
\* one is never listed, the hidden one only on request.
C17_Witness ==
    \E w \in WorldKeys :
        LET chests == chestsOf(w) IN
        /\ Len(chests) = 2
        /\ \E i, j \in DOMAIN chests :
              /\ chests[i].forbidden /\ ~chests[i].destroyed
              /\ chests[j].hidden /\ ~chests[j].destroyed /\ ~chests[j].forbidden
              /\ listChests(w, TRUE) = <<chests[j]>>
        /\ listChests(w, FALSE) = <<>>

\* C18: soft delete.  After markDestroyed(id) the record with that id is
\* still stored and is returned by none of getChestByLabel (whatever the
\* query, its own label included), getChestByPosition and listChests; and no
\* call other than removeChest makes the number of stored records smaller.
C18_SoftDelete ==
    /\ (lastCall.op = "markDestroyed" /\ \E i \in DOMAIN Before : Before[i].id = lastCall.id)
       => /\ \E i \in DOMAIN After : After[i].id = lastCall.id /\ After[i].destroyed
          /\ \A q \in RegistryLabels \cup {After[i].label : i \in DOMAIN After} :
                getChestByLabel(lastCall.world, q).id # lastCall.id
          /\ \A p \in DOMAIN world : getChestByPosition(lastCall.world, p).id # lastCall.id
          /\ \A includeHidden \in BOOLEAN :
                \A c \in Range(listChests(lastCall.world, includeHidden)) : c.id # lastCall.id
    /\ lastCall.op \in {"upsertChest", "markDestroyed"} => Len(After) >= Len(Before)

\* C18 witness: a record that lookups returned (live, not forbidden) was
\* marked destroyed in a world of two records, and is still stored.
C18_Witness ==
    /\ lastCall.op = "markDestroyed"
    /\ Len(After) = 2
    /\ \E i \in DOMAIN Before :
          /\ Before[i].id = lastCall.id
          /\ ~Before[i].destroyed
          /\ ~Before[i].forbidden
          /\ ~Before[i].hidden
          /\ After[i].destroyed

\* every record stored under the key of a world was upserted for that world:
\* it carries the dimension of the world
NoForeignRecord ==
    \A w \in WorldInputs : \A c \in Range(chestsOf(WorldKeyOf(w))) :
        c.dimension = w.dimension

\* C19: a registry call with world key W leaves the records of every other
\* world key as they were, and the records stored under (hence returned by
\* every lookup and list for) a world key were upserted for that world.
C19_WorldsIsolated ==
    [][/\ \A w \in DOMAIN store' :
             w # lastCall'.world => (w \in DOMAIN store /\ store'[w] = store[w])
       /\ \A w \in DOMAIN store : w \in DOMAIN store'
       /\ NoForeignRecord']_vars

\* C19 witness: both worlds hold a record, each its own, the same label
\* having been used in both.
C19_Witness ==
    /\ lastCall.op = "upsertChest"
    /\ \A w \in WorldKeys : w \in DOMAIN store /\ Len(store[w]) = 1
    /\ \E w1, w2 \in WorldKeys :
          /\ w1 # w2
          /\ store[w1][1].label = store[w2][1].label
          /\ store[w1][1].id # store[w2][1].id
          /\ getChestByLabel(w1, store[w1][1].label).id = store[w1][1].id
          /\ getChestByLabel(w2, store[w1][1].label).id = store[w2][1].id

\* the letters of the model in their two cases
CasePairs == {{"V", "v"}, {"B", "b"}}

\* a and b differ at most in the case of their letters
EqualIgnoringCase(a, b) ==
    /\ Len(a) = Len(b)
    /\ \A i \in DOMAIN a : a[i] = b[i] \/ {a[i], b[i]} \in CasePairs

\* labels as passed to getChestByLabel
LabelQueries == RegistryLabels \cup {<<"V", " ">>, <<"B">>}

\* C20: getChestByLabel returns a stored record that is neither destroyed nor
\* forbidden and whose label equals the trimmed query ignoring case, returns
\* nothing only when there is no such record, and returns the same for two
\* queries that differ only in case and surrounding whitespace.
C20_LabelLookup ==
    \A w \in WorldKeys : \A q \in LabelQueries :
        LET chests == chestsOf(w)
            r == getChestByLabel(w, q)
            matches == {i \in DOMAIN chests :
                           /\ ~chests[i].destroyed
                           /\ ~chests[i].forbidden
                           /\ EqualIgnoringCase(chests[i].label, trim(q))}
        IN /\ IF matches = {} THEN r = NoRecord ELSE \E i \in matches : r = chests[i]
           /\ \A q2 \in LabelQueries :
                 EqualIgnoringCase(trim(q), trim(q2)) => getChestByLabel(w, q2) = r

\* C20 witness: a record stored as "V" is found by the query "v" and by the
\* padded query " V", in a world that also holds a forbidden record.
C20_Witness ==
    \E w \in WorldKeys :
        LET chests == chestsOf(w) IN
        /\ Len(chests) = 2
        /\ \E i, j \in DOMAIN chests :
              /\ chests[i].label = <<"V">>
              /\ chests[j].forbidden
              /\ ~chests[j].destroyed
              /\ getChestByLabel(w, <<"v">>) = chests[i]
              /\ getChestByLabel(w, <<" ", "V">>) = chests[i]

C22_FailuresNotFatal ==
    /\ [](\A t \in Tasks : pc[t] # "failed")
    /\ [](ioErrors.loads # {} => loaded)
    /\ [][ioErrors' # ioErrors => store' = store]_vars

\* C22 witness: the load of an unparsable file failed, its caller went on to
\* label a chest, and the save of that registry failed too: the registry is
\* in memory and the file is as it was.
C22_Witness ==
    /\ ioErrors.loads # {}
    /\ ioErrors.saves > 0
    /\ disk = CorruptFile
    /\ \E t \in ioErrors.loads : pc[t] = "done"
    /\ BotWorldKey \in DOMAIN store
    /\ Len(store[BotWorldKey]) = 1

\* C23: bulk transfer conservation: for every requested count N the function
\* returns movedCount with 0 <= movedCount <= N and movedCount not above what
\* the source held, the skill reports N - movedCount as failed, and when the
\* source held fewer units than requested (and the destination has room for
\* them) movedCount is what the source held (64 requested, 40 held: 40 moved,
\* 24 reported remaining).
C23_TransferConservation ==
    transfer.phase = "returned" =>
        /\ 0 <= transfer.returned /\ transfer.returned <= transfer.count
        /\ transfer.returned <= transfer.held
        /\ transfer.failed = transfer.count - transfer.returned
        /\ (transfer.held < transfer.count /\ transfer.held <= transfer.space)
              => transfer.returned = transfer.held

\* C24: the count returned by depositType / withdrawType is the number of
\* units actually transferred.
C24_ReturnedIsActual ==
    transfer.phase = "returned" => transfer.returned = transfer.actual

\* the lexicographic order on coordinates: x, then y, then z
LexLeq(a, b) ==
    \/ a[1] < b[1]
    \/ a[1] = b[1] /\ a[2] < b[2]
    \/ a[1] = b[1] /\ a[2] = b[2] /\ a[3] <= b[3]

\* the orthogonal neighbours of pos that hold a block of the given name
SameNameNeighbours(pos, name) ==
    {q \in DOMAIN world :
        /\ blockAt(q) = name
        /\ Abs(q[1] - pos[1]) + Abs(q[3] - pos[3]) = 1
        /\ q[2] = pos[2]}

\* C25: detectContainerAt on a chest with an orthogonally adjacent chest
\* returns double_chest, the two coordinates in ascending (x, y, z) order and
\* the first as primary; in every detection result primary is a member of
\* positions and the lexicographically smallest of them.
C25_DoubleSortedPrimaryFirst ==
    (scan.op = "detectContainerAt" /\ scan.det.ok) =>
        LET det == scan.det IN
        /\ det.primary \in Range(det.positions)
        /\ \A q \in Range(det.positions) : LexLeq(det.primary, q)
        /\ (blockAt(scan.pos) = "chest" /\ SameNameNeighbours(scan.pos, "chest") # {}) =>
              /\ det.type = "double_chest"
              /\ Len(det.positions) = 2
              /\ \E q \in SameNameNeighbours(scan.pos, "chest") :
                    Range(det.positions) = {scan.pos, q}
              /\ LexLeq(det.positions[1], det.positions[2])
              /\ det.primary = det.positions[1]

\* C25 witness: detection was called on the chest of larger z of a pair that
\* differs in z only; the other chest comes first and is primary.
C25_Witness ==
    /\ scan.op = "detectContainerAt"
    /\ scan.pos = <<0, 64, 1>>
    /\ scan.det.ok
    /\ scan.det.type = "double_chest"
    /\ scan.det.positions = <<<<0, 64, 0>>, <<0, 64, 1>>>>
    /\ scan.det.primary = <<0, 64, 0>>

\* the results and records the position-count claim is about
Classified ==
    (IF scan.op = "detectContainerAt" /\ scan.det.ok THEN {scan.det} ELSE {})
        \cup (IF BotWorldKey \in DOMAIN store THEN Range(store[BotWorldKey]) ELSE {})

Discovered == IF scan.op \in {"find_containers", "openNearbyChest"} THEN scan.found ELSE <<>>

\* the member coordinates of the container that detection finds at pos
Members(pos) == Range(detectContainerAt(pos).positions)

\* C27: findNearbyContainers never returns two entries located at the two
\* positions that detectContainerAt returns for one container.
C27_CompositeReportedOnce ==
    \A i, j \in DOMAIN Discovered :
        i # j => \A pos \in DOMAIN world :
                    Members(pos) # {Discovered[i].position, Discovered[j].position}

\* a member coordinate of the container at pos is covered by a live forbidden record
ForbiddenCovers(pos) ==
    /\ BotWorldKey \in DOMAIN store
    /\ \E c \in Range(store[BotWorldKey]) :
          /\ c.forbidden
          /\ ~c.destroyed
          /\ Members(pos) \cap Range(c.positions) # {}

\* C28: find_containers never lists, and openNearbyChest never selects or
\* opens, a container one of whose member coordinates is covered by a
\* non-destroyed forbidden record.
C28_ForbiddenNotDiscovered ==
    /\ scan.op = "find_containers" =>
          \A i \in DOMAIN scan.listed : ~ForbiddenCovers(scan.listed[i].position)
    /\ scan.op = "openNearbyChest" =>
          \A i \in DOMAIN scan.target : ~ForbiddenCovers(scan.target[i].position)

\* the calls made before t for the lock key of t
Earlier(t) ==
    {u \in Tasks : \E i, j \in DOMAIN callSeq :
                      /\ callSeq[i] = u
                      /\ callSeq[j] = t
                      /\ i < j
                      /\ lockKeyOf[u] = lockKeyOf[t]}

\* C29: every operation submitted to runExclusive eventually starts, provided
\* every operation submitted earlier for the same key eventually settles: a
\* queued operation leads to its start, or else one of the earlier operations
\* on its key never settles.
C29_EventuallyStarts ==
    \A t \in Tasks :
        (pc[t] = "waiting") ~> (t \in Range(startSeq) \/ \E u \in Earlier(t) : pc[u] = "hung")

\* C29 witness: three operations were submitted for one key; the first
\* returned, the second threw, and the third has started.
C29_Witness ==
    \E t \in Tasks :
        /\ Cardinality(Earlier(t)) = 2
        /\ \A u \in Earlier(t) : pc[u] = "done"
        /\ \E u, v \in Earlier(t) :
              /\ u \in Earlier(v)
              /\ fnOutcome[u] = "return"
              /\ fnOutcome[v] = "throw"
        /\ pc[t] = "running"

C31_EitherHalfSameResult ==
    (scan.op = "detectContainerAt" /\ scan.det.ok /\ Len(scan.det.positions) = 2) =>
        \A q \in Range(scan.det.positions) :
            /\ detectContainerAt(q).positions = scan.det.positions
            /\ detectContainerAt(q).primary = scan.det.primary

\* the record that the last upsertChest call returned, as it is in the store
Returned ==
    LET chests == store[lastCall.world]
    IN chests[CHOOSE i \in DOMAIN chests : chests[i].id = lastCall.id]

\* C32: the record returned by upsertChest carries the normalized (trimmed)
\* label, whether it was updated or created, and getChestByLabel matches the
\* record under that label (when the record is not forbidden).
C32_ReturnedLabelNormalized ==
    lastCall.op = "upsertChest" =>
        /\ Returned.label = normalizeLabel(lastCall.arg.label)
        /\ ~Returned.forbidden =>
              getChestByLabel(lastCall.world, lastCall.arg.label) # NoRecord

\* C33: when no write fails, the persisted file catches up with the registry
\* after the last mutation: once no timer is pending and no write is in
\* progress (nothing more will be written), the file is the in-memory
\* registry, also when a write started while an earlier one was in progress.
C33_FileCatchesUp ==
    (savePending = <<>> /\ writing = <<>> /\ burst.reqs > 0 /\ ioErrors.saves = 0) =>
        disk = FileOf(store)

\* C34: depositType / withdrawType always terminate and never raise: one bulk
\* attempt; single-unit attempts only after the bulk attempt failed, at most
\* N of them, none after the first that fails.
C34_TerminatesBounded ==
    /\ [](/\ transfer.phase \in {"idle", "bulk", "units", "returned"}
          /\ transfer.bulkTries <= 1
          /\ transfer.unitTries <= transfer.count
          /\ transfer.unitTries > 0 => transfer.bulkTries = 1
          /\ transfer.phase = "units" => transfer.bulkTries = 1
          /\ transfer.unitFails <= 1
          /\ transfer.unitFails = 1 =>
                (transfer.phase = "returned" /\ transfer.unitTries = transfer.moved + 1)
          /\ transfer.unitFails = 0 => transfer.unitTries = transfer.moved)
    /\ (transfer.phase = "bulk") ~> (transfer.phase = "returned")

\* C34 witness: the bulk attempt failed, two single units were moved and the
\* third single attempt failed, which ended the call.
C34_Witness ==
    /\ transfer.phase = "returned"
    /\ transfer.bulkTries = 1
    /\ transfer.unitTries = 3
    /\ transfer.unitFails = 1
    /\ transfer.returned = 2
    /\ transfer.count > 3
(***************************************************************************)
(* C35  label_chest leaves the registry unchanged and schedules no save    *)
(* whenever it fails: no step of an invocation whose params are missing,   *)
(* malformed or blank, or name an unloaded block or a block that is no     *)
(* supported container, removes or alters a record held in memory, creates *)
(* a record or requests a save.                                            *)
(***************************************************************************)
labelFails(p) == ~paramsAccepted(p) \/ ~detectContainerAt(paramsPos(p)).ok

RecordsOf(worlds) ==
    UNION {{<<w, worlds[w][i]>> : i \in DOMAIN worlds[w]} : w \in DOMAIN worlds}

C35_FailedLabelChangesNothing ==
    [][\A t \in LabelTasks :
          (pc'[t] # pc[t] /\ labelFails(params'[t])) =>
              /\ RecordsOf(store) \subseteq RecordsOf(store')
              /\ nextId' = nextId
              /\ savePending' = savePending
              /\ burst' = burst]_vars

(***************************************************************************)
(* C36  Slot accounting: the container region is slots [0, containerEnd)   *)
(* with containerEnd = inventoryStart when the window declares it and      *)
(* max(total - 36, 0) otherwise; the free container slots and the occupied *)
(* container slots add up to containerSize; the summary holds, once per    *)
(* item name found in the container region, the sum of the counts of the   *)
(* stacks of that name in the region, and nothing of the inventory tail.   *)
(***************************************************************************)
ContainerRegion(w) ==
    {i \in 0..(Len(w.slots) - 1) :
        i < (IF w.inventoryStart.declared THEN w.inventoryStart.n
             ELSE IF Len(w.slots) > 36 THEN Len(w.slots) - 36 ELSE 0)}

RECURSIVE SumOfCounts(_, _, _)
SumOfCounts(w, S, name) ==
    IF S = {} THEN 0
    ELSE LET i == CHOOSE j \in S : TRUE
         IN (IF w.slots[i + 1].name = name THEN w.slots[i + 1].count ELSE 0)
            + SumOfCounts(w, S \ {i}, name)

NamesIn(w, S) == {w.slots[i + 1].name : i \in {j \in S : w.slots[j + 1] # Null}}

C36_SlotAccounting ==
    window.op # "none" =>
        LET region == ContainerRegion(window)
            occupied == {i \in region : window.slots[i + 1] # Null}
        IN /\ window.info.containerStart = 0
           /\ window.info.containerEnd = Cardinality(region)
           /\ window.info.containerSize = Cardinality(region)
           /\ window.op = "countFreeContainerSlots" =>
                 window.free + Cardinality(occupied) = window.info.containerSize
           /\ window.op = "summarizeContainerContents" =>
                 /\ {window.summary[k].name : k \in DOMAIN window.summary}
                       = NamesIn(window, region)
                 /\ \A k, l \in DOMAIN window.summary :
                       window.summary[k].name = window.summary[l].name => k = l
                 /\ \A k \in DOMAIN window.summary :
                       window.summary[k].count
                         = SumOfCounts(window, region, window.summary[k].name)

C36_Witness ==
    /\ window.op = "summarizeContainerContents"
    /\ ~window.inventoryStart.declared
    /\ Len(window.slots) = 38
    /\ window.summary = <<Item("dirt", 3)>>
    /\ window.slots[38] = Item("dirt", 5)

(***************************************************************************)
(* C37  No registry mutation is lost from memory because of loading: the   *)
(* record the last upsertChest returned is in the in-memory registry, in   *)
(* every interleaving of the callers of loadStore (no call removes a       *)
(* record here).                                                           *)
(***************************************************************************)
C37_UpsertedRecordStays ==
    lastCall.op = "upsertChest" =>
        \E i \in DOMAIN chestsOf(lastCall.world) : chestsOf(lastCall.world)[i].id = lastCall.id

(***************************************************************************)
(* C38  A container is never opened while its record is forbidden: in      *)
(* every interleaving of an access with label_chest, the step that issues  *)
(* bot.openContainer is not taken when a non-destroyed forbidden record    *)
(* covers the position accessed.                                           *)
(***************************************************************************)
C38_NoOpenWhileForbidden ==
    [][\A t \in PolicyTasks :
          (~openIssued[t] /\ openIssued'[t]) => ~ForbiddenCovers(posVec[t])]_vars

(***************************************************************************)
(* C39  After a sequence of upsertChest calls on an initially empty world, *)
(* no two non-destroyed records of that world have the same primary        *)
(* coordinate, and no coordinate is a member of the positions of two       *)
(* non-destroyed records.                                                  *)
(***************************************************************************)
\* every registry call so far was an upsertChest (the log holds two calls)
OnlyUpserts ==
    /\ regOps <= 2
    /\ lastCall.op \in {"none", "upsertChest"}
    /\ prevCall.op \in {"none", "upsertChest"}

C39_NoSharedCoordinate ==
    OnlyUpserts =>
        \A w \in DOMAIN store : \A i, j \in DOMAIN store[w] :
            (i # j /\ ~store[w][i].destroyed /\ ~store[w][j].destroyed) =>
                /\ store[w][i].primary # store[w][j].primary
                /\ Range(store[w][i].positions) \cap Range(store[w][j].positions) = {}

(***************************************************************************)
(* C40  Once the 30 s timeout of a skill has been reported, the skill      *)
(* performs no further world interaction: from then on it takes no step    *)
(* that starts its fn under the mutex, calls bot.openContainer or begins   *)
(* to use a window, and it is at no time inside runExclusive's fn.         *)
(***************************************************************************)
C40_NoInteractionAfterTimeout ==
    [][\A t \in SkillTasks :
          timedOut[t] =>
              /\ ~(pc[t] = "waiting" /\ pc'[t] = "nav")
              /\ ~(~openIssued[t] /\ openIssued'[t])
              /\ ~(pc[t] # "use" /\ pc'[t] = "use")
              /\ pc'[t] \notin {"nav", "look", "opening"}]_vars

====
